---- MODULE Spec2Model ----
(***************************************************************************)
(* Session poller and rule engine of Tracearr.                             *)
(*                                                                         *)
(* The poller (jobs/poller, src/unnamed/part_003) polls every configured   *)
(* media server, diffs the reported sessions against the active-session    *)
(* cache, writes Session rows, evaluates the rules for new sessions and    *)
(* then replaces the cache and publishes lifecycle events.  pollServers is *)
(* an async function: a tick is a sequence of steps separated by awaits,   *)
(* and nothing in the poller keeps two ticks from being in flight at once. *)
(* The rule engine (services/rules, src/unnamed/part_007 lines 765-1081)   *)
(* is a set of pure functions over a session and its recent history.       *)
(***************************************************************************)
EXTENDS Integers, Sequences, FiniteSets, TLC

VARIABLES
    pollingInterval,  \* part_003:15  TRUE iff the interval handle is not null
    cache,            \* CacheService active-session snapshot (list of ActiveSession)
    sessionById,      \* CacheService per-session entries (ids held)
    userSessions,     \* CacheService per-user index, pairs <<userId, sessionId>>
    sessions,         \* table sessions, row id = index
    users,            \* table users, row id = index
    violations,       \* table violations, in insertion order
    rules,            \* table rules (active ones)
    tick,             \* the local state of each pollServers call, and its history
    ticksStarted,     \* number of pollServers calls so far
    faults,           \* number of failed provider and database calls so far
    eng,              \* new sessions with start times: tables, clock, last evaluation
    idn,              \* calls of findOrCreateUser: ids returned, last call
    fmt,              \* a call of formatEvidenceDetails: arguments and result
    timers,           \* number of interval timers set by setInterval and not cleared
    calls,            \* the calls of startPoller and stopPoller made so far
    plex              \* a call of mapPlexSession: argument and result

vars == <<pollingInterval, cache, sessionById, userSessions, sessions, users,
          violations, rules, tick, ticksStarted, faults, eng, idn,
          fmt, timers, calls, plex>>

-----------------------------------------------------------------------------
(* Bounds of the model *)

MaxTicks == 3          \* calls of pollServers in a run, one at a time
MaxLongTicks == 4      \* calls of pollServers in a long run, one at a time
MaxOverlapTicks == 2   \* calls of pollServers in a run, overlapping
MaxRows == 3           \* rows of table sessions
MaxFaults == 1         \* failed provider and database calls in a run
MaxEngineRows == 3     \* rows of table sessions in a run of new sessions
MaxLiveTicks == 3      \* calls of pollServers in a run of a started poller
MaxUserRows == 2       \* rows of table users in a run of findOrCreateUser calls
MaxStoreTicks == 2     \* calls of pollServers in a run with rule changes
MaxConditions == 2     \* conditions in the evidence of a violation
MaxControlCalls == 4   \* calls of startPoller and stopPoller in a run

TickIds == {"t1", "t2"}

-----------------------------------------------------------------------------
(* Values *)

\* JavaScript null for string-valued fields, and for id-valued fields
NULL == "null"
NoId == 0
\* the value of a property the object does not have
UndefinedId == -1

Range(s) == {s[i] : i \in 1..Len(s)}

\* a read of an id-valued property: a missing property reads as undefined
FieldId(r, f) == IF f \in DOMAIN r THEN r[f] ELSE UndefinedId

\* OrNull that passes the empty string on
KeepEmpty(v) == v

\* x || null
OrNull(v) == IF v = "" THEN NULL ELSE v

\* JavaScript truthiness of a string | null
Truthy(v) == v # NULL /\ v # ""

-----------------------------------------------------------------------------
(* The configured servers and what their providers can report *)

Servers == <<"s1", "s2">>

ServerKeys(serverId) == IF serverId = "s1" THEN <<"a", "b">> ELSE <<"a">>

\* the client behind a provider session: its account, address and device
\* stay the same for the life of the session key
ClientOf(serverId, sessionKey) ==
    IF serverId = "s1" /\ sessionKey = "a"
        THEN [externalUserId |-> "alice", ipAddress |-> "ip1", deviceId |-> "d1"]
    ELSE IF serverId = "s1"
        THEN [externalUserId |-> "alice", ipAddress |-> "ip2", deviceId |-> "d2"]
    ELSE [externalUserId |-> "bob", ipAddress |-> "ip3", deviceId |-> ""]

\* JavaScript null for a coordinate (no latitude or longitude has this value)
NullCoord == 999

\* geoipService.lookup: a location without country and coordinates for an
\* address it cannot resolve.  ip1 is in New York, ip2 in Beijing, ip4 in
\* Philadelphia (whole degrees).
geoipLookup(ipAddress) ==
    IF ipAddress = "ip1" THEN [country |-> "US", lat |-> 41, lon |-> -74]
    ELSE IF ipAddress = "ip2" THEN [country |-> "CN", lat |-> 40, lon |-> 116]
    ELSE IF ipAddress = "ip4" THEN [country |-> "US", lat |-> 40, lon |-> -75]
    ELSE [country |-> NULL, lat |-> NullCoord, lon |-> NullCoord]

\* the player states a provider reports for a session
PlayStates(serverId, sessionKey) ==
    IF serverId = "s1" /\ sessionKey = "a" THEN {"playing", "paused"} ELSE {"playing"}

\* a ProcessedSession as mapPlexSession / mapJellyfinSession return it
ProcessedSession(serverId, sessionKey, state) ==
    [sessionKey |-> sessionKey,
     externalUserId |-> ClientOf(serverId, sessionKey).externalUserId,
     username |-> ClientOf(serverId, sessionKey).externalUserId,
     userThumb |-> "",
     ipAddress |-> ClientOf(serverId, sessionKey).ipAddress,
     deviceId |-> ClientOf(serverId, sessionKey).deviceId,
     state |-> state]

\* the lists getSessions() can return for a server, in provider order
Reports(serverId) ==
    LET keys == ServerKeys(serverId)
        one(k) == {<<ProcessedSession(serverId, k, st)>> : st \in PlayStates(serverId, k)}
    IN  {<<>>}
        \cup UNION {one(keys[i]) : i \in 1..Len(keys)}
        \cup (IF Len(keys) < 2 THEN {}
              ELSE {x \o y : x \in one(keys[1]), y \in one(keys[2])})

-----------------------------------------------------------------------------
(* Plex normalization *)

\* the address chosen whenever a public remote address is present
plexIpAddressRemoteFirst(player) ==
    IF Truthy(player.remotePublicAddress)
    THEN player.remotePublicAddress
    ELSE player.address

\* !session.player.local && session.player.remotePublicAddress
\*     ? session.player.remotePublicAddress : session.player.address
plexIpAddress(player) ==
    IF ~player.local /\ Truthy(player.remotePublicAddress)
    THEN player.remotePublicAddress
    ELSE player.address

\* mapPlexSession, for the fields a ProcessedSession has here
mapPlexSession(session) ==
    [sessionKey |-> session.sessionKey,
     externalUserId |-> session.user.id,
     username |-> IF Truthy(session.user.title) THEN session.user.title ELSE "Unknown",
     userThumb |-> IF Truthy(session.user.thumb) THEN session.user.thumb ELSE "",
     ipAddress |-> plexIpAddress(session.player),
     deviceId |-> session.player.machineIdentifier,
     state |-> IF session.player.state = "paused" THEN "paused" ELSE "playing"]

\* the sessions a Plex server can report: a player on the server's network
\* or not, with or without (missing, or empty) a public remote address
PlexSessions ==
    {[sessionKey |-> "a",
      user |-> [id |-> "alice", title |-> title, thumb |-> thumb],
      player |-> [local |-> local, address |-> address,
                  remotePublicAddress |-> remote,
                  machineIdentifier |-> "d1", state |-> state]] :
        title \in {"alice", ""}, thumb \in {"t1", NULL},
        local \in BOOLEAN, address \in {"ip5", "ip6"},
        remote \in {NULL, "", "ip1", "ip2"},
        state \in {"playing", "paused", "buffering"}}

\* no call of mapPlexSession yet
IdlePlex == [session |-> <<>>, processed |-> <<>>, done |-> FALSE]

-----------------------------------------------------------------------------
(* Rules in storage *)

ActiveRulesInit ==
    <<[id |-> "r1", type |-> "concurrent_streams", userId |-> NoId,
       params |-> [maxStreams |-> 1]],
      [id |-> "r2", type |-> "geo_restriction", userId |-> NoId,
       params |-> [mode |-> "blocklist", countries |-> <<"CN">>]]>>

\* the active rules after an administrator replaced them
AltRules ==
    <<[id |-> "r3", type |-> "geo_restriction", userId |-> NoId,
       params |-> [mode |-> "blocklist", countries |-> <<"US">>]]>>

-----------------------------------------------------------------------------
(* Table users *)

DefaultTrustScore == 100

\* the row findOrCreateUser's select returns (NoId: none)
FindUser(tbl, serverId, externalId) ==
    LET hits == {i \in 1..Len(tbl) :
                    tbl[i].serverId = serverId /\ tbl[i].externalId = externalId}
    IN  IF hits = {} THEN NoId ELSE CHOOSE i \in hits : \A j \in hits : i <= j

\* the id findOrCreateUser returns
findOrCreateUserId(tbl, serverId, externalId) ==
    IF FindUser(tbl, serverId, externalId) # NoId
        THEN FindUser(tbl, serverId, externalId)
        ELSE Len(tbl) + 1

\* needsUpdate that is always true
needsUpdateAlways(existing, username, thumbUrl) == TRUE

\* the stored username differs, or there is an incoming thumbnail and the
\* stored one differs
needsUpdate(existing, username, thumbUrl) ==
    \/ existing.username # username
    \/ (Truthy(thumbUrl) /\ existing.thumbUrl # thumbUrl)

\* table users after findOrCreateUser
findOrCreateUser(tbl, serverId, externalId, username, thumbUrl) ==
    LET e == FindUser(tbl, serverId, externalId)
    IN  IF e # NoId
        THEN IF needsUpdate(tbl[e], username, thumbUrl)
             THEN [tbl EXCEPT ![e].username = username,
                              ![e].thumbUrl = IF thumbUrl # NULL THEN thumbUrl
                                              ELSE tbl[e].thumbUrl]
             ELSE tbl
        ELSE Append(tbl, [serverId |-> serverId, externalId |-> externalId,
                          username |-> username, thumbUrl |-> thumbUrl,
                          trustScore |-> DefaultTrustScore])

-----------------------------------------------------------------------------
(* Table sessions *)

\* ids of the rows of a (serverId, sessionKey)
RowsOfKey(tbl, serverId, sessionKey) ==
    {i \in 1..Len(tbl) : tbl[i].serverId = serverId /\ tbl[i].sessionKey = sessionKey}

\* ids of the rows of a (serverId, sessionKey) with stoppedAt null
OpenRowsOfKey(tbl, serverId, sessionKey) ==
    {i \in RowsOfKey(tbl, serverId, sessionKey) : ~tbl[i].stoppedAt}

\* getRecentUserSessions: the user's rows, latest startedAt first.  Rows are
\* inserted with startedAt = now, so a later row has a later startedAt; the
\* 24 hour window and the limit of 100 contain every row of a run.
RECURSIVE RecentFrom(_, _, _)
RecentFrom(tbl, userId, i) ==
    IF i = 0 THEN <<>>
    ELSE IF tbl[i].userId = userId
         THEN <<tbl[i]>> \o RecentFrom(tbl, userId, i - 1)
         ELSE RecentFrom(tbl, userId, i - 1)

getRecentUserSessions(tbl, userId) == RecentFrom(tbl, userId, Len(tbl))

-----------------------------------------------------------------------------
(* Rule engine *)

NotViolated == [violated |-> FALSE, severity |-> "low", data |-> [none |-> TRUE]]

\* rule.params read from storage as JSON null: reading a property of it
\* throws a TypeError
NullParams == [isNull |-> TRUE]
IsNullParams(params) == "isNull" \in DOMAIN params

\* n > params.f: a property the payload lacks reads as undefined, and a
\* comparison with undefined is false
GreaterThanParam(n, params, f) == f \in DOMAIN params /\ n > params[f]

\* the checks without the same-device exclusion
NeverSameDevice(session, s) == FALSE

\* same device: both ids present and equal
SameDevice(session, s) ==
    Truthy(session.deviceId) /\ Truthy(s.deviceId) /\ session.deviceId = s.deviceId

\* the same-user test of the checks, on the property the engine reads
SameServerUser(session, s) ==
    FieldId(s, "serverUserId") = FieldId(session, "serverUserId")

checkConcurrentStreams(session, recentSessions, params) ==
    LET activeSessions ==
            SelectSeq(recentSessions,
                      LAMBDA s : /\ SameServerUser(session, s)
                                 /\ s.state = "playing"
                                 /\ ~SameDevice(session, s))
        totalStreams == Len(activeSessions) + 1
    IN  IF GreaterThanParam(totalStreams, params, "maxStreams")
        THEN [violated |-> TRUE, severity |-> "low",
              data |-> [activeStreamCount |-> totalStreams,
                        maxAllowedStreams |-> params.maxStreams,
                        relatedSessionIds |->
                            [i \in 1..Len(activeSessions) |-> activeSessions[i].id]]]
        ELSE NotViolated

\* checkGeoRestriction with allowlist as the mode of a rule that gives none
checkGeoRestrictionAllowlistDefault(session, params) ==
    LET mode == IF "mode" \in DOMAIN params THEN params.mode ELSE "allowlist"
        countries == IF "countries" \in DOMAIN params THEN params.countries ELSE <<>>
        isInList == session.geoCountry \in Range(countries)
    IN  IF ~Truthy(session.geoCountry) \/ Len(countries) = 0
        THEN NotViolated
        ELSE IF (IF mode = "blocklist" THEN isInList ELSE ~isInList)
             THEN [violated |-> TRUE, severity |-> "high",
                   data |-> [country |-> session.geoCountry, mode |-> mode,
                             countries |-> countries]]
             ELSE NotViolated

checkGeoRestriction(session, params) ==
    LET mode == IF "mode" \in DOMAIN params THEN params.mode ELSE "blocklist"
        countries == IF "countries" \in DOMAIN params THEN params.countries
                     ELSE IF "blockedCountries" \in DOMAIN params
                          THEN params.blockedCountries
                          ELSE <<>>
        isInList == session.geoCountry \in Range(countries)
    IN  IF ~Truthy(session.geoCountry) \/ Len(countries) = 0
        THEN NotViolated
        ELSE IF (IF mode = "blocklist" THEN isInList ELSE ~isInList)
             THEN [violated |-> TRUE, severity |-> "high",
                   data |-> [country |-> session.geoCountry, mode |-> mode,
                             countries |-> countries]]
             ELSE NotViolated

\* the great-circle distance in km for the places geoipLookup knows, in
\* place of the haversine formula: 0 for one place, symmetric
calculateDistance(lat1, lon1, lat2, lon2) ==
    IF lat1 = lat2 /\ lon1 = lon2 THEN 0
    ELSE IF {<<lat1, lon1>>, <<lat2, lon2>>} = {<<41, -74>>, <<40, -75>>} THEN 130
    ELSE 11000

\* the coordinate tests left out
HasCoordsAlways(s) == TRUE

\* s.geoLat !== null && s.geoLon !== null
HasCoords(s) == s.geoLat # NullCoord /\ s.geoLon # NullCoord

\* checkImpossibleTravel without the test timeDiffHours > 0
checkImpossibleTravelAnyTime(session, recentSessions, params) ==
    LET tooFast == SelectSeq(recentSessions,
                             LAMBDA prev :
                                /\ SameServerUser(session, prev)
                                /\ HasCoords(prev) /\ HasCoords(session)
                                /\ "maxSpeedKmh" \in DOMAIN params
                                /\ calculateDistance(prev.geoLat, prev.geoLon,
                                                     session.geoLat, session.geoLon)
                                      > params.maxSpeedKmh
                                          * (session.startedAt - prev.startedAt))
    IN  IF tooFast # <<>>
        THEN [violated |-> TRUE, severity |-> "high",
              data |-> [previousSessionId |-> tooFast[1].id]]
        ELSE NotViolated

\* startedAt is in whole hours, so timeDiffHours is an integer and
\* distance / timeDiffHours > maxSpeedKmh is distance > maxSpeedKmh * timeDiffHours
checkImpossibleTravel(session, recentSessions, params) ==
    LET ofUser ==
            SelectSeq(recentSessions,
                      LAMBDA s : /\ SameServerUser(session, s)
                                 /\ HasCoords(s)
                                 /\ HasCoords(session))
        timeDiffHours(prev) == session.startedAt - prev.startedAt
        distance(prev) == calculateDistance(prev.geoLat, prev.geoLon,
                                            session.geoLat, session.geoLon)
        tooFast == SelectSeq(ofUser,
                             LAMBDA prev :
                                /\ timeDiffHours(prev) > 0
                                /\ "maxSpeedKmh" \in DOMAIN params
                                /\ distance(prev) > params.maxSpeedKmh * timeDiffHours(prev))
    IN  IF tooFast # <<>>
        THEN [violated |-> TRUE, severity |-> "high",
              data |-> [previousSessionId |-> tooFast[1].id,
                        distance |-> distance(tooFast[1]),
                        timeDiffHours |-> timeDiffHours(tooFast[1]),
                        maxAllowedSpeed |-> params.maxSpeedKmh]]
        ELSE NotViolated

\* the sessions checkSimultaneousLocations finds at a different location
\* conflictingSessions without the test of the state
conflictingSessionsAnyState(session, recentSessions, params) ==
    LET activeSessions ==
            SelectSeq(recentSessions,
                      LAMBDA s : /\ SameServerUser(session, s)
                                 /\ HasCoords(s)
                                 /\ HasCoords(session)
                                 /\ ~SameDevice(session, s))
    IN  SelectSeq(activeSessions,
                  LAMBDA a : GreaterThanParam(
                                calculateDistance(a.geoLat, a.geoLon,
                                                  session.geoLat, session.geoLon),
                                params, "minDistanceKm"))

conflictingSessions(session, recentSessions, params) ==
    LET activeSessions ==
            SelectSeq(recentSessions,
                      LAMBDA s : /\ SameServerUser(session, s)
                                 /\ s.state = "playing"
                                 /\ HasCoords(s)
                                 /\ HasCoords(session)
                                 /\ ~SameDevice(session, s))
    IN  SelectSeq(activeSessions,
                  LAMBDA a : GreaterThanParam(
                                calculateDistance(a.geoLat, a.geoLon,
                                                  session.geoLat, session.geoLon),
                                params, "minDistanceKm"))

checkSimultaneousLocations(session, recentSessions, params) ==
    LET conflicting == conflictingSessions(session, recentSessions, params)
        distances == {calculateDistance(conflicting[i].geoLat, conflicting[i].geoLon,
                                        session.geoLat, session.geoLon) :
                         i \in 1..Len(conflicting)}
        allLocations ==
            <<[lat |-> session.geoLat, lon |-> session.geoLon, sessionId |-> session.id]>>
            \o [i \in 1..Len(conflicting) |->
                    [lat |-> conflicting[i].geoLat, lon |-> conflicting[i].geoLon,
                     sessionId |-> conflicting[i].id]]
    IN  IF Len(conflicting) > 0
        THEN [violated |-> TRUE, severity |-> "warning",
              data |-> [locations |-> allLocations,
                        locationCount |-> Len(allLocations),
                        distance |-> CHOOSE d \in distances :
                                        \A e \in distances : d >= e,
                        minRequiredDistance |-> params.minDistanceKm,
                        relatedSessionIds |->
                            [i \in 1..Len(conflicting) |-> conflicting[i].id]]]
        ELSE NotViolated

\* the addresses checkDeviceVelocity counts.  Without windowHours the window
\* start is an invalid date and no history session is at or after it.
uniqueIps(session, recentSessions, params) ==
    LET ofUser ==
            SelectSeq(recentSessions,
                      LAMBDA s : /\ SameServerUser(session, s)
                                 /\ "windowHours" \in DOMAIN params
                                 /\ s.startedAt >= session.startedAt - params.windowHours)
    IN  {ofUser[i].ipAddress : i \in 1..Len(ofUser)} \cup {session.ipAddress}

checkDeviceVelocity(session, recentSessions, params) ==
    LET ips == uniqueIps(session, recentSessions, params)
    IN  IF GreaterThanParam(Cardinality(ips), params, "maxIps")
        THEN [violated |-> TRUE, severity |-> "warning",
              data |-> [uniqueIpCount |-> Cardinality(ips),
                        maxAllowedIps |-> params.maxIps,
                        windowHours |-> params.windowHours,
                        ips |-> ips]]
        ELSE NotViolated

evaluateRule(rule, session, recentSessions) ==
    CASE rule.type = "impossible_travel" ->
            checkImpossibleTravel(session, recentSessions, rule.params)
      [] rule.type = "simultaneous_locations" ->
            checkSimultaneousLocations(session, recentSessions, rule.params)
      [] rule.type = "device_velocity" ->
            checkDeviceVelocity(session, recentSessions, rule.params)
      [] rule.type = "concurrent_streams" ->
            checkConcurrentStreams(session, recentSessions, rule.params)
      [] rule.type = "geo_restriction" ->
            checkGeoRestriction(session, rule.params)
      [] OTHER -> NotViolated

\* evaluateRule throws: the check reads a property of null params.
\* checkImpossibleTravel reads params.maxSpeedKmh only for a prior session
\* with a positive time difference, checkSimultaneousLocations reads
\* params.minDistanceKm only for an active session; the other checks read
\* their params on every call.
evaluateRuleThrows(rule, session, recentSessions) ==
    /\ IsNullParams(rule.params)
    /\ CASE rule.type = "impossible_travel" ->
                \E i \in 1..Len(recentSessions) :
                    /\ SameServerUser(session, recentSessions[i])
                    /\ HasCoords(recentSessions[i]) /\ HasCoords(session)
                    /\ session.startedAt - recentSessions[i].startedAt > 0
         [] rule.type = "simultaneous_locations" ->
                \E i \in 1..Len(recentSessions) :
                    /\ SameServerUser(session, recentSessions[i])
                    /\ recentSessions[i].state = "playing"
                    /\ HasCoords(recentSessions[i]) /\ HasCoords(session)
                    /\ ~SameDevice(session, recentSessions[i])
         [] rule.type \in {"device_velocity", "concurrent_streams", "geo_restriction"} ->
                TRUE
         [] OTHER -> FALSE

\* the engine's scope test: the rule names a server user other than the session's
SkipsRule(rule, session) ==
    /\ FieldId(rule, "serverUserId") # NoId
    /\ FieldId(rule, "serverUserId") # FieldId(session, "serverUserId")

\* evaluateSession rejects: evaluateRule throws for a rule it does not skip
\* (nothing catches it in the loop)
evaluateSessionThrows(session, activeRules, recentSessions) ==
    \E i \in 1..Len(activeRules) :
        /\ ~SkipsRule(activeRules[i], session)
        /\ evaluateRuleThrows(activeRules[i], session, recentSessions)

\* the results evaluateSession returns: the violated ones, in rule order
\* (when the call rejects there is no return value: written as no results)
evaluateSession(session, activeRules, recentSessions) ==
    IF evaluateSessionThrows(session, activeRules, recentSessions) THEN <<>>
    ELSE
    LET applicable == SelectSeq(activeRules, LAMBDA r : ~SkipsRule(r, session))
        results == [i \in 1..Len(applicable) |->
                        evaluateRule(applicable[i], session, recentSessions)]
    IN  SelectSeq(results, LAMBDA res : res.violated)

\* the ids of the rules evaluateSession found violated for the session
ViolatedRuleIds(session, activeRules, recentSessions) ==
    {r.id : r \in {x \in Range(activeRules) :
                      /\ ~SkipsRule(x, session)
                      /\ ~evaluateRuleThrows(x, session, recentSessions)
                      /\ evaluateRule(x, session, recentSessions).violated}}

-----------------------------------------------------------------------------
(* Violations *)

PenaltyHigh == 20
PenaltyWarning == 10
PenaltyLow == 5

\* trustPenalty without the case of severity warning
trustPenaltyTwoLevels(severity) ==
    IF severity = "high" THEN PenaltyHigh ELSE PenaltyLow

\* result.severity === 'high' ? 20 : result.severity === 'warning' ? 10 : 5
trustPenalty(severity) ==
    IF severity = "high" THEN PenaltyHigh
    ELSE IF severity = "warning" THEN PenaltyWarning
    ELSE PenaltyLow

\* the update without GREATEST
Unclamped(n) == n

\* GREATEST(0, trustScore - trustPenalty)
Greatest0(n) == IF n < 0 THEN 0 ELSE n

\* the rule processServerSessions hands to createViolation for a result
\* (NoId: none): the first active rule that is global or scoped to the user
MatchingRuleIndex(activeRules, userId, result) ==
    LET hits == {i \in 1..Len(activeRules) :
                    /\ (activeRules[i].userId = NoId \/ activeRules[i].userId = userId)
                    /\ result.violated}
    IN  IF hits = {} THEN NoId ELSE CHOOSE i \in hits : \A j \in hits : i <= j

\* the rows createViolation inserts for the results of one session
CreatedViolations(activeRules, session, ruleResults) ==
    LET withRule == SelectSeq(ruleResults,
                        LAMBDA res : MatchingRuleIndex(activeRules, session.userId, res) # NoId)
    IN  [i \in 1..Len(withRule) |->
            [ruleId |-> activeRules[MatchingRuleIndex(activeRules, session.userId,
                                                      withRule[i])].id,
             userId |-> session.userId,
             sessionId |-> session.id,
             severity |-> withRule[i].severity]]

\* table users after the trust-score updates of createViolation, one per row
RECURSIVE ApplyPenalties(_, _)
ApplyPenalties(tbl, created) ==
    IF created = <<>> THEN tbl
    ELSE ApplyPenalties(
            [tbl EXCEPT ![Head(created).userId].trustScore =
                            Greatest0(@ - trustPenalty(Head(created).severity))],
            Tail(created))

-----------------------------------------------------------------------------
(* New sessions with start times: the insert, the history query, the rule
   evaluation and the violations of processServerSessions, one session at a
   time, over rows that carry startedAt and coordinates *)

RecentHours == 24
RecentLimit == 100

\* hours between one new session and the next
Gaps == {0, 15}

\* the sessions providers report: user 1 on four addresses and three devices
\* (d1 twice, one player without device id), one of them paused and so
\* not playing in the history of the sessions after it; user 2
EngineClients ==
    {[userId |-> 1, ipAddress |-> "ip1", deviceId |-> "d1", state |-> "playing"],
     [userId |-> 1, ipAddress |-> "ip2", deviceId |-> "d2", state |-> "playing"],
     [userId |-> 1, ipAddress |-> "ip4", deviceId |-> "d1", state |-> "playing"],
     [userId |-> 1, ipAddress |-> "ip3", deviceId |-> "", state |-> "playing"],
     [userId |-> 1, ipAddress |-> "ip4", deviceId |-> "d3", state |-> "paused"],
     [userId |-> 2, ipAddress |-> "ip2", deviceId |-> "d2", state |-> "playing"]}

\* one global rule of every kind
GlobalRules ==
    <<[id |-> "g1", type |-> "impossible_travel", userId |-> NoId,
       params |-> [maxSpeedKmh |-> 500]],
      [id |-> "g2", type |-> "simultaneous_locations", userId |-> NoId,
       params |-> [minDistanceKm |-> 100]],
      [id |-> "g3", type |-> "device_velocity", userId |-> NoId,
       params |-> [maxIps |-> 2, windowHours |-> 24]],
      [id |-> "g4", type |-> "device_velocity", userId |-> NoId,
       params |-> [maxIps |-> 2, windowHours |-> 48]],
      [id |-> "g5", type |-> "concurrent_streams", userId |-> NoId,
       params |-> [maxStreams |-> 2]],
      [id |-> "g6", type |-> "geo_restriction", userId |-> NoId,
       params |-> [mode |-> "blocklist", countries |-> <<"CN">>]],
      [id |-> "g7", type |-> "geo_restriction", userId |-> NoId,
       params |-> [mode |-> "allowlist", countries |-> <<"CN">>]],
      [id |-> "g8", type |-> "geo_restriction", userId |-> NoId,
       params |-> [countries |-> <<"CN">>]],
      [id |-> "g9", type |-> "geo_restriction", userId |-> NoId,
       params |-> [mode |-> "allowlist", countries |-> <<>>]]>>

\* a rule scoped to user 2 after a global rule no session violates
ScopedRules ==
    <<[id |-> "q1", type |-> "concurrent_streams", userId |-> NoId,
       params |-> [maxStreams |-> 100]],
      [id |-> "q2", type |-> "geo_restriction", userId |-> 2,
       params |-> [mode |-> "blocklist", countries |-> <<"CN">>]]>>

\* rules with malformed params: an empty payload, null, and a good rule
MalformedRules ==
    <<[id |-> "m1", type |-> "device_velocity", userId |-> NoId, params |-> <<>>],
      [id |-> "m2", type |-> "geo_restriction", userId |-> NoId,
       params |-> [mode |-> "blocklist", countries |-> <<"CN">>]],
      [id |-> "m3", type |-> "impossible_travel", userId |-> NoId,
       params |-> NullParams]>>

RuleLists == {GlobalRules, ScopedRules, MalformedRules}

\* the users the clients belong to, as rows of table users
EngineUsers == <<[trustScore |-> DefaultTrustScore], [trustScore |-> DefaultTrustScore]>>

\* no call of findOrCreateUser yet
IdleResolver == [returned |-> {}, last |-> <<>>]

IdleEngine ==
    [rules |-> <<>>, now |-> 0, sessions |-> <<>>, users |-> EngineUsers,
     violations |-> <<>>, last |-> <<>>]

\* the row the insert returns for a reported session: startedAt is the
\* time of the insert, the location is the address's
TimedSession(id, client, now) ==
    [id |-> id,
     userId |-> client.userId,
     state |-> client.state,
     ipAddress |-> client.ipAddress,
     deviceId |-> OrNull(client.deviceId),
     geoCountry |-> geoipLookup(client.ipAddress).country,
     geoLat |-> geoipLookup(client.ipAddress).lat,
     geoLon |-> geoipLookup(client.ipAddress).lon,
     startedAt |-> now]

\* getRecentUserSessions at time now: the user's rows with startedAt >=
\* now - 24 hours, latest first (rows are in insertion order, so in start
\* order), at most 100
RECURSIVE RecentSince(_, _, _, _)
RecentSince(tbl, userId, since, i) ==
    IF i = 0 THEN <<>>
    ELSE IF tbl[i].userId = userId /\ tbl[i].startedAt >= since
         THEN <<tbl[i]>> \o RecentSince(tbl, userId, since, i - 1)
         ELSE RecentSince(tbl, userId, since, i - 1)

getRecentUserSessionsAt(tbl, userId, now) ==
    LET found == RecentSince(tbl, userId, now - RecentHours, Len(tbl))
    IN  IF Len(found) > RecentLimit THEN SubSeq(found, 1, RecentLimit) ELSE found

-----------------------------------------------------------------------------
(* Violation helpers: the details panel built from the evidence of a rule.
   A JavaScript value is a record with its type: a string or an object. *)

Str(s) == [type |-> "string", value |-> s]
Obj(fields) == [type |-> "object", value |-> fields]

\* an actual value or threshold: a number, a string or null
Num(n) == [type |-> "number", value |-> n]
NullValue == [type |-> "null"]

\* String(v)
StringOf(v) ==
    IF v.type = "number" THEN ToString(v.value)
    ELSE IF v.type = "null" THEN "null"
    ELSE v.value

CONDITION_FIELD_LABELS(field) ==
    CASE field = "concurrent_streams" -> "Concurrent Streams"
      [] field = "travel_speed_kmh" -> "Travel Speed"
      [] field = "inactive_days" -> "Inactive Days"
      [] field = "user_id" -> "User"
      [] field = "country" -> "Country"
      [] OTHER -> field

OPERATOR_LABELS(operator) ==
    CASE operator = "eq" -> "="
      [] operator = "gt" -> ">"
      [] OTHER -> operator

\* formatSpeed and formatDistance (constants.js): rounded, km/h or mph,
\* km or mi
formatSpeed(kmh, unitSystem) ==
    IF unitSystem = "imperial"
    THEN ToString((kmh * 621371 + 500000) \div 1000000) \o " mph"
    ELSE ToString(kmh) \o " km/h"

formatDistance(km, unitSystem) ==
    IF unitSystem = "imperial"
    THEN ToString((km * 621371 + 500000) \div 1000000) \o " mi"
    ELSE ToString(km) \o " km"

formatConditionActual(condition, unitSystem) ==
    IF condition.actual.type = "null" THEN "unknown"
    ELSE CASE condition.field = "travel_speed_kmh" ->
                 IF condition.actual.type = "number"
                 THEN formatSpeed(condition.actual.value, unitSystem)
                 ELSE StringOf(condition.actual)
           [] condition.field = "inactive_days" ->
                 IF condition.actual.type = "number"
                 THEN ToString(condition.actual.value) \o " days"
                 ELSE StringOf(condition.actual)
           [] OTHER -> StringOf(condition.actual)

\* details[label] = value
SetDetail(details, label, value) ==
    [l \in DOMAIN details \cup {label} |-> IF l = label THEN value ELSE details[l]]

\* the entries one condition adds: the entry under its label, and the travel
\* distance of a travel_speed_kmh condition that carries one (the inputs
\* carry no locations, addresses, devices or dates)
AddCondition(details, cond, unitSystem) ==
    LET label == CONDITION_FIELD_LABELS(cond.field)
        entry == Obj([actual |-> formatConditionActual(cond, unitSystem),
                      threshold |-> OPERATOR_LABELS(cond.operator) \o " "
                                        \o StringOf(cond.threshold),
                      matched |-> cond.matched])
        withEntry == SetDetail(details, label, entry)
    IN  IF cond.field = "travel_speed_kmh" /\ "details" \in DOMAIN cond
        THEN SetDetail(withEntry, "Travel Distance",
                       Str(formatDistance(cond.details.distance, unitSystem)))
        ELSE withEntry

RECURSIVE AddConditions(_, _, _)
AddConditions(details, conditions, unitSystem) ==
    IF conditions = <<>> THEN details
    ELSE AddConditions(AddCondition(details, Head(conditions), unitSystem),
                       Tail(conditions), unitSystem)

RECURSIVE AddGroups(_, _, _)
AddGroups(details, evidence, unitSystem) ==
    IF evidence = <<>> THEN details
    ELSE AddGroups(AddConditions(details, Head(evidence).conditions, unitSystem),
                   Tail(evidence), unitSystem)

formatEvidenceDetails(evidence, unitSystem) == AddGroups(<<>>, evidence, unitSystem)

\* the conditions of the evidence of a violation
Conditions ==
    {[field |-> "concurrent_streams", operator |-> "gt", threshold |-> Num(2),
      actual |-> Num(3), matched |-> TRUE],
     [field |-> "user_id", operator |-> "eq", threshold |-> Str("u-3dae"),
      actual |-> Str("u-3dae"), matched |-> TRUE],
     [field |-> "travel_speed_kmh", operator |-> "gt", threshold |-> Num(500),
      actual |-> Num(1200), matched |-> TRUE],
     [field |-> "travel_speed_kmh", operator |-> "gt", threshold |-> Num(500),
      actual |-> Num(300), matched |-> FALSE, details |-> [distance |-> 130]],
     [field |-> "inactive_days", operator |-> "gt", threshold |-> Num(30),
      actual |-> Num(45), matched |-> TRUE],
     [field |-> "country", operator |-> "eq", threshold |-> Str("CN"),
      actual |-> NullValue, matched |-> FALSE],
     [field |-> "custom_field", operator |-> "matches", threshold |-> Str("x"),
      actual |-> Str("y"), matched |-> FALSE]}

UnitSystems == {"metric", "imperial"}

\* the lists of one to n conditions
RECURSIVE ConditionLists(_)
ConditionLists(n) ==
    IF n = 0 THEN {<<>>}
    ELSE ConditionLists(n - 1)
         \cup {Append(l, c) : l \in {x \in ConditionLists(n - 1) : Len(x) = n - 1},
                              c \in Conditions}

\* evidence: one group, or two groups of one condition each
EvidenceInputs ==
    {<<[groupIndex |-> 0, matched |-> TRUE, conditions |-> l]>> :
        l \in ConditionLists(MaxConditions) \ {<<>>}}
    \cup {<<[groupIndex |-> 0, matched |-> TRUE, conditions |-> <<c>>],
            [groupIndex |-> 1, matched |-> TRUE, conditions |-> <<d>>]>> :
            c \in Conditions, d \in Conditions}

IdleFormatter == [evidence |-> <<>>, unitSystem |-> "metric", details |-> <<>>,
                  done |-> FALSE]

-----------------------------------------------------------------------------
(* A tick: one call of pollServers *)

IdleTick ==
    [pc |-> "idle", kind |-> "none",
     cachedSessions |-> <<>>, activeRules |-> <<>>, srv |-> 1,
     allNewSessions |-> <<>>, allStoppedKeys |-> <<>>, allUpdatedSessions |-> <<>>,
     \* locals of processServerSessions
     processedSessions |-> <<>>, newSessions |-> <<>>, updatedSessions |-> <<>>,
     currentSessionKeys |-> {}, cur |-> <<>>,
     \* history of the tick
     fetchFailed |-> {}, threw |-> {}, reported |-> {}, selfFailed |-> {},
     inserted |-> {}, closed |-> {}, evalLog |-> {}, written |-> <<>>,
     events |-> <<>>, stopSeen |-> FALSE,
     \* the step at which the outer catch of pollServers ended the tick, and
     \* storage and cache as they were when a publish call rejected
     failedAt |-> "none", committed |-> <<>>,
     \* the keys the call for a server had processed when a publish call of
     \* createViolation rejected
     eventFailed |-> {}]

InFlight(t) == tick[t].pc \notin {"idle", "done"}

\* `${serverId}:${sessionKey}`
ScopedKey(serverId, sessionKey) == <<serverId, sessionKey>>

KeysOf(list) == [i \in 1..Len(list) |-> ScopedKey(list[i].serverId, list[i].sessionKey)]
IdsOf(list) == {list[i].id : i \in 1..Len(list)}

cachedSessionKeys(tk) == Range(KeysOf(tk.cachedSessions))

\* cachedSessions.find(s => s.serverId === serverId && s.sessionKey === sessionKey),
\* as a list of at most one session
FindCached(tk, key) ==
    LET hits == SelectSeq(tk.cachedSessions,
                          LAMBDA s : ScopedKey(s.serverId, s.sessionKey) = key)
    IN  IF hits = <<>> THEN <<>> ELSE <<hits[1]>>

\* the cached sessions found for the stopped keys, in order
StoppedCached(tk) ==
    LET found == SelectSeq(tk.allStoppedKeys, LAMBDA k : FindCached(tk, k) # <<>>)
    IN  [i \in 1..Len(found) |-> FindCached(tk, found[i])[1]]

\* ReturnFromServer with the events published before the cache update
ReturnFromServerPublishFirst(tk, new, stopped, updated) ==
    [tk EXCEPT !.allNewSessions = @ \o new,
               !.allStoppedKeys = @ \o stopped,
               !.allUpdatedSessions = @ \o updated,
               !.srv = @ + 1,
               !.pc = IF tk.srv = Len(Servers) THEN "publish" ELSE "fetch",
               !.processedSessions = <<>>, !.newSessions = <<>>,
               !.updatedSessions = <<>>, !.currentSessionKeys = {}, !.cur = <<>>]

\* processServerSessions returns: pollServers appends the three lists and
\* goes on with the next server, or with the cache update after the last
ReturnFromServer(tk, new, stopped, updated) ==
    [tk EXCEPT !.allNewSessions = @ \o new,
               !.allStoppedKeys = @ \o stopped,
               !.allUpdatedSessions = @ \o updated,
               !.srv = @ + 1,
               !.pc = IF tk.srv = Len(Servers) THEN "cache" ELSE "fetch",
               !.processedSessions = <<>>, !.newSessions = <<>>,
               !.updatedSessions = <<>>, !.currentSessionKeys = {}, !.cur = <<>>]

\* the catch of processServerSessions: three empty lists
CatchServer(tk) ==
    ReturnFromServer([tk EXCEPT !.threw = @ \cup {Servers[tk.srv]}], <<>>, <<>>, <<>>)

\* the end of one iteration of the session loop
AfterSession(tk) ==
    [tk EXCEPT !.processedSessions = Tail(@),
               !.cur = <<>>,
               !.pc = IF Len(tk.processedSessions) = 1 THEN "stopped" ELSE "session"]

\* the first lines of pollServers: servers, cached sessions and active rules
BeginTick(t, kind) ==
    /\ ~InFlight(t)
    /\ ticksStarted' = ticksStarted + 1
    /\ tick' = [tick EXCEPT ![t] = [IdleTick EXCEPT !.pc = "fetch", !.kind = kind,
                                                    !.cachedSessions = cache,
                                                    !.activeRules = rules]]

\* the slot a new call of pollServers takes
FreeSlot(t) == ~InFlight(t) /\ (t = "t2" => InFlight("t1"))

-----------------------------------------------------------------------------
(* Poller control *)

\* the last lines of startPoller: an immediate call of pollServers, and the
\* interval timer setInterval returns is kept in pollingInterval
StartTimer ==
    /\ pollingInterval' = TRUE
    /\ timers' = timers + 1
    /\ \E t \in TickIds : FreeSlot(t) /\ BeginTick(t, "immediate")
    /\ UNCHANGED <<eng, idn, fmt, plex, cache, sessionById, userSessions, sessions, users,
                   violations, rules, faults>>

\* startPoller with the poller enabled and stopped: an immediate tick and
\* the interval timer
StartPoller ==
    /\ ~pollingInterval
    /\ StartTimer
    /\ UNCHANGED calls

\* startPoller without the test of pollingInterval
StartPollerCalledAgain(enabled) ==
    /\ calls' = Append(calls, [op |-> "startPoller", enabled |-> enabled,
                                running |-> pollingInterval])
    /\ IF ~enabled
       THEN UNCHANGED <<eng, idn, fmt, timers, plex, pollingInterval, cache, sessionById,
                        userSessions, sessions, users, violations, rules, tick,
                        ticksStarted, faults>>
       ELSE StartTimer

\* a call of startPoller, whatever the config and the state of the poller:
\* nothing when the merged config is not enabled, nothing when
\* pollingInterval is set
StartPollerCalled(enabled) ==
    /\ calls' = Append(calls, [op |-> "startPoller", enabled |-> enabled,
                                running |-> pollingInterval])
    /\ IF ~enabled \/ pollingInterval
       THEN UNCHANGED <<eng, idn, fmt, timers, plex, pollingInterval, cache, sessionById,
                        userSessions, sessions, users, violations, rules, tick,
                        ticksStarted, faults>>
       ELSE StartTimer

\* the interval callback: pollServers, whatever the earlier calls are doing
TimerFire ==
    /\ timers > 0
    /\ \E t \in TickIds : FreeSlot(t) /\ BeginTick(t, "timer")
    /\ UNCHANGED <<eng, idn, fmt, timers, calls, plex, pollingInterval, cache, sessionById,
                   userSessions, sessions, users, violations, rules, faults>>

\* triggerPoll: pollServers
TriggerPoll ==
    /\ \E t \in TickIds : FreeSlot(t) /\ BeginTick(t, "manual")
    /\ UNCHANGED <<eng, idn, fmt, timers, calls, plex, pollingInterval, cache, sessionById,
                   userSessions, sessions, users, violations, rules, faults>>

\* StopPoller that also ends the calls of pollServers in flight
StopPollerAborts ==
    /\ pollingInterval
    /\ pollingInterval' = FALSE
    /\ timers' = timers - 1
    /\ tick' = [t \in TickIds |->
                    IF InFlight(t)
                    THEN [tick[t] EXCEPT !.stopSeen = TRUE, !.pc = "done"]
                    ELSE tick[t]]
    /\ UNCHANGED <<eng, idn, fmt, calls, plex, cache, sessionById, userSessions, sessions,
                   users, violations, rules, ticksStarted, faults>>

\* the body of stopPoller: clearInterval ends the timer kept in
\* pollingInterval, and pollingInterval is null again
ClearTimer ==
    /\ pollingInterval' = FALSE
    /\ timers' = timers - 1
    /\ tick' = [t \in TickIds |->
                    IF InFlight(t) THEN [tick[t] EXCEPT !.stopSeen = TRUE] ELSE tick[t]]
    /\ UNCHANGED <<eng, idn, fmt, plex, cache, sessionById, userSessions, sessions, users,
                   violations, rules, ticksStarted, faults>>

\* stopPoller: clears the interval
StopPoller ==
    /\ pollingInterval
    /\ ClearTimer
    /\ UNCHANGED calls

\* a call of stopPoller, whatever the state of the poller: nothing when
\* pollingInterval is null
StopPollerCalled ==
    /\ calls' = Append(calls, [op |-> "stopPoller", running |-> pollingInterval])
    /\ IF pollingInterval
       THEN ClearTimer
       ELSE UNCHANGED <<eng, idn, fmt, timers, plex, pollingInterval, cache, sessionById,
                        userSessions, sessions, users, violations, rules, tick,
                        ticksStarted, faults>>

-----------------------------------------------------------------------------
(* processServerSessions *)

\* the inserts a call of pollServers has still to make for the list it fetched
PendingInserts(tk) ==
    LET rest == IF tk.pc = "evaluate" THEN Tail(tk.processedSessions)
                ELSE tk.processedSessions
    IN  Cardinality({i \in 1..Len(rest) :
            ScopedKey(Servers[tk.srv], rest[i].sessionKey) \notin cachedSessionKeys(tk)})

RECURSIVE SumPendingInserts(_)
SumPendingInserts(T) ==
    IF T = {} THEN 0
    ELSE LET t == CHOOSE x \in T : TRUE
         IN  PendingInserts(tick[t]) + SumPendingInserts(T \ {t})

\* the lists a provider returns in a run leave table sessions within MaxRows
FitsRows(t, report) ==
    Len(sessions) + SumPendingInserts(TickIds)
      + Cardinality({i \in 1..Len(report) :
            ScopedKey(Servers[tick[t].srv], report[i].sessionKey)
                \notin cachedSessionKeys(tick[t])})
      <= MaxRows

\* getSessions() returns a list
FetchOk(t) ==
    /\ tick[t].pc = "fetch"
    /\ \E report \in Reports(Servers[tick[t].srv]) :
          /\ FitsRows(t, report)
          /\ tick' = [tick EXCEPT ![t] =
                      [tick[t] EXCEPT
                          !.processedSessions = report,
                          !.reported = @ \cup {ScopedKey(Servers[tick[t].srv],
                                                         report[i].sessionKey) :
                                                   i \in 1..Len(report)},
                          !.pc = IF report = <<>> THEN "stopped" ELSE "session"]]
    /\ UNCHANGED <<eng, idn, fmt, timers, calls, plex, pollingInterval, cache, sessionById, userSessions,
                   sessions, users, violations, rules, ticksStarted, faults>>

\* FetchFail with the failure taken for an empty list of sessions
FetchFailAsEmpty(t) ==
    /\ tick[t].pc = "fetch"
    /\ faults < MaxFaults
    /\ faults' = faults + 1
    /\ tick' = [tick EXCEPT ![t] =
                    [tick[t] EXCEPT !.fetchFailed = @ \cup {Servers[tick[t].srv]},
                                    !.pc = "stopped"]]
    /\ UNCHANGED <<eng, idn, fmt, timers, calls, plex, pollingInterval, cache, sessionById, userSessions,
                   sessions, users, violations, rules, ticksStarted>>

\* FetchFail without the catch of processServerSessions: the error reaches
\* the catch of pollServers
FetchFailEndsTick(t) ==
    /\ tick[t].pc = "fetch"
    /\ faults < MaxFaults
    /\ faults' = faults + 1
    /\ tick' = [tick EXCEPT ![t] =
                    [tick[t] EXCEPT !.fetchFailed = @ \cup {Servers[tick[t].srv]},
                                    !.pc = "done"]]
    /\ UNCHANGED <<eng, idn, fmt, timers, calls, plex, pollingInterval, cache, sessionById, userSessions,
                   sessions, users, violations, rules, ticksStarted>>

\* getSessions() throws: the catch returns three empty lists
FetchFail(t) ==
    /\ tick[t].pc = "fetch"
    /\ faults < MaxFaults
    /\ faults' = faults + 1
    /\ tick' = [tick EXCEPT ![t] =
                    CatchServer([tick[t] EXCEPT
                                    !.fetchFailed = @ \cup {Servers[tick[t].srv]}])]
    /\ UNCHANGED <<eng, idn, fmt, timers, calls, plex, pollingInterval, cache, sessionById, userSessions,
                   sessions, users, violations, rules, ticksStarted>>

\* the session the loop is at, its scoped key and its user
CurProcessed(t) == Head(tick[t].processedSessions)
CurServer(t) == Servers[tick[t].srv]
CurKey(t) == ScopedKey(CurServer(t), CurProcessed(t).sessionKey)
CurUserId(t) == findOrCreateUserId(users, CurServer(t), CurProcessed(t).externalUserId)
IsNew(t) == CurKey(t) \notin cachedSessionKeys(tick[t])

\* the start of an iteration: the key is noted and the user found or created
ResolveUser(t) ==
    users' = findOrCreateUser(users, CurServer(t), CurProcessed(t).externalUserId,
                              CurProcessed(t).username,
                              OrNull(CurProcessed(t).userThumb))

\* the Session / ActiveSession built from a processed session
SessionOf(t, id) ==
    [id |-> id,
     serverId |-> CurServer(t),
     userId |-> CurUserId(t),
     sessionKey |-> CurProcessed(t).sessionKey,
     state |-> CurProcessed(t).state,
     ipAddress |-> CurProcessed(t).ipAddress,
     geoCountry |-> geoipLookup(CurProcessed(t).ipAddress).country,
     deviceId |-> OrNull(CurProcessed(t).deviceId),
     stoppedAt |-> FALSE]

\* a new session: the row is inserted and the session joins newSessions
InsertSession(t) ==
    /\ tick[t].pc = "session"
    /\ IsNew(t)
    /\ ResolveUser(t)
    /\ sessions' = Append(sessions, SessionOf(t, Len(sessions) + 1))
    /\ tick' = [tick EXCEPT ![t] =
                    [tick[t] EXCEPT
                        !.currentSessionKeys = @ \cup {CurKey(t)},
                        !.newSessions = Append(@, SessionOf(t, Len(sessions) + 1)),
                        !.cur = <<SessionOf(t, Len(sessions) + 1)>>,
                        !.inserted = @ \cup {Len(sessions) + 1},
                        !.pc = "evaluate"]]
    /\ UNCHANGED <<eng, idn, fmt, timers, calls, plex, pollingInterval, cache, sessionById, userSessions,
                   violations, rules, ticksStarted, faults>>

\* a new session whose insert returns no row: logged, continue
InsertNoRow(t) ==
    /\ tick[t].pc = "session"
    /\ faults < MaxFaults
    /\ faults' = faults + 1
    /\ IsNew(t)
    /\ ResolveUser(t)
    /\ tick' = [tick EXCEPT ![t] =
                    AfterSession([tick[t] EXCEPT
                                    !.currentSessionKeys = @ \cup {CurKey(t)},
                                    !.selfFailed = @ \cup {CurKey(t)}])]
    /\ UNCHANGED <<eng, idn, fmt, timers, calls, plex, pollingInterval, cache, sessionById, userSessions,
                   sessions, violations, rules, ticksStarted>>

\* a new session whose insert rejects: the catch of processServerSessions
InsertThrows(t) ==
    /\ tick[t].pc = "session"
    /\ faults < MaxFaults
    /\ faults' = faults + 1
    /\ IsNew(t)
    /\ ResolveUser(t)
    /\ tick' = [tick EXCEPT ![t] =
                    CatchServer([tick[t] EXCEPT !.selfFailed = @ \cup {CurKey(t)}])]
    /\ UNCHANGED <<eng, idn, fmt, timers, calls, plex, pollingInterval, cache, sessionById, userSessions,
                   sessions, violations, rules, ticksStarted>>

\* table sessions after the update of the rows of a (serverId, sessionKey)
PatchRows(tbl, serverId, sessionKey, state) ==
    [i \in 1..Len(tbl) |->
        IF i \in RowsOfKey(tbl, serverId, sessionKey)
        THEN [tbl[i] EXCEPT !.state = state]
        ELSE tbl[i]]

\* UpdateSession that goes on to the rule evaluation
UpdateSessionEvaluates(t) ==
    /\ tick[t].pc = "session"
    /\ ~IsNew(t)
    /\ ResolveUser(t)
    /\ sessions' = PatchRows(sessions, CurServer(t), CurProcessed(t).sessionKey,
                             CurProcessed(t).state)
    /\ LET rows == RowsOfKey(sessions, CurServer(t), CurProcessed(t).sessionKey)
       IN  \E id \in (IF rows = {} THEN {NoId} ELSE rows) :
              tick' = [tick EXCEPT ![t] =
                          IF id = NoId
                          THEN AfterSession([tick[t] EXCEPT
                                  !.currentSessionKeys = @ \cup {CurKey(t)}])
                          ELSE [tick[t] EXCEPT
                                  !.currentSessionKeys = @ \cup {CurKey(t)},
                                  !.updatedSessions = Append(@, SessionOf(t, id)),
                                  !.cur = <<SessionOf(t, id)>>,
                                  !.pc = "evaluate"]]
    /\ UNCHANGED <<eng, idn, fmt, timers, calls, plex, pollingInterval, cache, sessionById, userSessions,
                   violations, rules, ticksStarted, faults>>

\* a cached session: its rows are patched, one of them is read back (limit 1,
\* no order) and the session joins updatedSessions under that row's id
UpdateSession(t) ==
    /\ tick[t].pc = "session"
    /\ ~IsNew(t)
    /\ ResolveUser(t)
    /\ sessions' = PatchRows(sessions, CurServer(t), CurProcessed(t).sessionKey,
                             CurProcessed(t).state)
    /\ LET rows == RowsOfKey(sessions, CurServer(t), CurProcessed(t).sessionKey)
       IN  \E id \in (IF rows = {} THEN {NoId} ELSE rows) :
              tick' = [tick EXCEPT ![t] =
                          AfterSession([tick[t] EXCEPT
                              !.currentSessionKeys = @ \cup {CurKey(t)},
                              !.updatedSessions =
                                  IF id = NoId THEN @
                                  ELSE Append(@, SessionOf(t, id))])]
    /\ UNCHANGED <<eng, idn, fmt, timers, calls, plex, pollingInterval, cache, sessionById, userSessions,
                   violations, rules, ticksStarted, faults>>

\* a cached session whose update rejects: the catch of processServerSessions
UpdateThrows(t) ==
    /\ tick[t].pc = "session"
    /\ faults < MaxFaults
    /\ faults' = faults + 1
    /\ ~IsNew(t)
    /\ ResolveUser(t)
    /\ tick' = [tick EXCEPT ![t] =
                    CatchServer([tick[t] EXCEPT !.selfFailed = @ \cup {CurKey(t)}])]
    /\ UNCHANGED <<eng, idn, fmt, timers, calls, plex, pollingInterval, cache, sessionById, userSessions,
                   sessions, violations, rules, ticksStarted>>

\* the rules are evaluated for the new session with the given rule list and
\* a Violation is created for every result; when evaluateSession rejects
\* the catch of processServerSessions ends the call for the server
EvaluateWith(t, activeRules) ==
    /\ tick[t].pc = "evaluate"
    /\ LET session == tick[t].cur[1]
           recentSessions == getRecentUserSessions(sessions, session.userId)
           ruleResults == evaluateSession(session, activeRules, recentSessions)
           created == CreatedViolations(activeRules, session, ruleResults)
       IN  IF evaluateSessionThrows(session, activeRules, recentSessions)
           THEN /\ tick' = [tick EXCEPT ![t] = CatchServer(tick[t])]
                /\ UNCHANGED <<violations, users>>
           ELSE
           /\ violations' = violations \o created
           /\ users' = ApplyPenalties(users, created)
           /\ tick' = [tick EXCEPT ![t] =
                  AfterSession([tick[t] EXCEPT
                      !.events = @ \o
                          [i \in 1..Len(created) |->
                              [topic |-> "violation:new", id |-> Len(violations) + i]],
                      !.evalLog = @ \cup
                          {[sessionId |-> session.id,
                            rules |-> activeRules,
                            violated |-> ViolatedRuleIds(session, activeRules,
                                                         recentSessions)]}])]
    /\ UNCHANGED <<eng, idn, fmt, timers, calls, plex, pollingInterval, cache, sessionById, userSessions,
                   sessions, rules, ticksStarted, faults>>

\* EvaluateRules with the active rules read again from storage
EvaluateRulesRereads(t) == EvaluateWith(t, rules)

\* the rules the tick read at its start are evaluated for the new session
EvaluateRules(t) == EvaluateWith(t, tick[t].activeRules)

\* the publish call of createViolation rejects for the k-th Violation of the
\* new session: its row and penalty are written, then the rejection ends
\* the call for the server in the catch of processServerSessions
ViolationPublishFails(t) ==
    /\ tick[t].pc = "evaluate"
    /\ faults < MaxFaults
    /\ faults' = faults + 1
    /\ LET session == tick[t].cur[1]
           recentSessions == getRecentUserSessions(sessions, session.userId)
           ruleResults == evaluateSession(session, tick[t].activeRules, recentSessions)
           created == CreatedViolations(tick[t].activeRules, session, ruleResults)
       IN  /\ ~evaluateSessionThrows(session, tick[t].activeRules, recentSessions)
           /\ \E k \in 1..Len(created) :
                 /\ violations' = violations \o SubSeq(created, 1, k)
                 /\ users' = ApplyPenalties(users, SubSeq(created, 1, k))
                 /\ tick' = [tick EXCEPT ![t] =
                        CatchServer([tick[t] EXCEPT
                            !.events = @ \o
                                [i \in 1..(k - 1) |->
                                    [topic |-> "violation:new",
                                     id |-> Len(violations) + i]],
                            !.eventFailed = @ \cup tick[t].currentSessionKeys,
                            !.evalLog = @ \cup
                                {[sessionId |-> session.id,
                                  rules |-> tick[t].activeRules,
                                  violated |-> ViolatedRuleIds(session,
                                                  tick[t].activeRules, recentSessions)]}])]
    /\ UNCHANGED <<eng, idn, fmt, timers, calls, plex, pollingInterval, cache, sessionById, userSessions,
                   sessions, rules, ticksStarted>>

\* the cached keys of the server that were not reported, in cache order
StoppedSessionKeys(tk) ==
    SelectSeq(KeysOf(tk.cachedSessions),
              LAMBDA k : k[1] = Servers[tk.srv] /\ k \notin tk.currentSessionKeys)

\* table sessions with the rows `ids` closed
CloseRows(tbl, ids) ==
    [i \in 1..Len(tbl) |->
        IF i \in ids THEN [tbl[i] EXCEPT !.state = "stopped", !.stoppedAt = TRUE]
        ELSE tbl[i]]

\* the stopped loop: for every stopped key one open row of the key, if there
\* is one, is closed (limit 1, no order); then the function returns
FindStopped(t) ==
    /\ tick[t].pc = "stopped"
    /\ LET keys == Range(StoppedSessionKeys(tick[t]))
       IN  \E pick \in [keys -> 0..Len(sessions)] :
              /\ \A k \in keys :
                    IF OpenRowsOfKey(sessions, k[1], k[2]) = {}
                    THEN pick[k] = NoId
                    ELSE pick[k] \in OpenRowsOfKey(sessions, k[1], k[2])
              /\ sessions' = CloseRows(sessions, {pick[k] : k \in keys} \ {NoId})
              /\ tick' = [tick EXCEPT ![t] =
                            ReturnFromServer(
                                [tick[t] EXCEPT
                                    !.closed = @ \cup ({pick[k] : k \in keys} \ {NoId})],
                                tick[t].newSessions,
                                StoppedSessionKeys(tick[t]),
                                tick[t].updatedSessions)]
    /\ UNCHANGED <<eng, idn, fmt, timers, calls, plex, pollingInterval, cache, sessionById, userSessions, users,
                   violations, rules, ticksStarted, faults>>

-----------------------------------------------------------------------------
(* pollServers after the servers *)

\* CacheUpdate that adds the new sessions to the snapshot it read
CacheUpdateIncremental(t) ==
    /\ tick[t].pc = "cache"
    /\ LET tk == tick[t]
           currentActiveSessions == tk.cachedSessions \o tk.allNewSessions
       IN  /\ cache' = currentActiveSessions
           /\ sessionById' = sessionById \cup IdsOf(currentActiveSessions)
           /\ userSessions' = userSessions
           /\ tick' = [tick EXCEPT ![t] =
                          [tk EXCEPT !.written = <<currentActiveSessions>>,
                                     !.pc = "publish"]]
    /\ UNCHANGED <<eng, idn, fmt, timers, calls, plex, pollingInterval, sessions, users, violations, rules,
                   ticksStarted, faults>>

\* the snapshot is replaced by the new and updated sessions and the
\* per-session and per-user entries are brought up to date
CacheUpdate(t) ==
    /\ tick[t].pc = "cache"
    /\ LET tk == tick[t]
           currentActiveSessions == tk.allNewSessions \o tk.allUpdatedSessions
           stopped == StoppedCached(tk)
       IN  /\ cache' = currentActiveSessions
           /\ sessionById' = (sessionById \cup IdsOf(currentActiveSessions))
                                \ IdsOf(stopped)
           /\ userSessions' =
                  (userSessions
                     \cup {<<tk.allNewSessions[i].userId, tk.allNewSessions[i].id>> :
                              i \in 1..Len(tk.allNewSessions)})
                  \ {<<stopped[i].userId, stopped[i].id>> : i \in 1..Len(stopped)}
           /\ tick' = [tick EXCEPT ![t] =
                          [tk EXCEPT !.written = <<currentActiveSessions>>,
                                     !.pc = "publish"]]
    /\ UNCHANGED <<eng, idn, fmt, timers, calls, plex, pollingInterval, sessions, users, violations, rules,
                   ticksStarted, faults>>

\* the events of a tick: started, updated, stopped
TickEvents(tk) ==
    [i \in 1..Len(tk.allNewSessions) |->
        [topic |-> "session:started", id |-> tk.allNewSessions[i].id]]
    \o [i \in 1..Len(tk.allUpdatedSessions) |->
        [topic |-> "session:updated", id |-> tk.allUpdatedSessions[i].id]]
    \o [i \in 1..Len(StoppedCached(tk)) |->
        [topic |-> "session:stopped", id |-> StoppedCached(tk)[i].id]]

\* the lifecycle events are published and pollServers returns
Publish(t) ==
    /\ tick[t].pc = "publish"
    /\ tick' = [tick EXCEPT ![t] =
                    [tick[t] EXCEPT !.events = @ \o TickEvents(tick[t]),
                                    !.pc = "done"]]
    /\ UNCHANGED <<eng, idn, fmt, timers, calls, plex, pollingInterval, cache, sessionById, userSessions,
                   sessions, users, violations, rules, ticksStarted, faults>>

-----------------------------------------------------------------------------
(* Failures caught by the outer catch of pollServers *)

\* LoadFails with the rejection leaving pollServers: the process ends and
\* no timer fires again
LoadFailsEscapes(t) ==
    /\ tick[t].pc = "fetch"
    /\ tick[t].srv = 1
    /\ faults < MaxFaults
    /\ faults' = faults + 1
    /\ pollingInterval' = FALSE
    /\ tick' = [tick EXCEPT ![t] = [tick[t] EXCEPT !.failedAt = "load",
                                                    !.pc = "done"]]
    /\ UNCHANGED <<eng, idn, fmt, timers, calls, plex, cache, sessionById, userSessions, sessions, users,
                   violations, rules, ticksStarted>>

\* the select of the servers, the read of the cached sessions or the select
\* of the active rules rejects: nothing was done yet, the catch logs and
\* pollServers returns
LoadFails(t) ==
    /\ tick[t].pc = "fetch"
    /\ tick[t].srv = 1
    /\ faults < MaxFaults
    /\ faults' = faults + 1
    /\ tick' = [tick EXCEPT ![t] = [tick[t] EXCEPT !.failedAt = "load",
                                                    !.pc = "done"]]
    /\ UNCHANGED <<eng, idn, fmt, timers, calls, plex, pollingInterval, cache, sessionById, userSessions,
                   sessions, users, violations, rules, ticksStarted>>

\* a cache write rejects, setActiveSessions itself or the first write after
\* it: the snapshot is written or not, the entries are not brought up to
\* date, nothing is published
CacheWriteFails(t) ==
    /\ tick[t].pc = "cache"
    /\ faults < MaxFaults
    /\ faults' = faults + 1
    /\ LET tk == tick[t]
           currentActiveSessions == tk.allNewSessions \o tk.allUpdatedSessions
       IN  \E wrote \in BOOLEAN :
              /\ cache' = IF wrote THEN currentActiveSessions ELSE cache
              /\ tick' = [tick EXCEPT ![t] =
                             [tk EXCEPT !.written = IF wrote
                                                    THEN <<currentActiveSessions>>
                                                    ELSE <<>>,
                                        !.failedAt = "cache",
                                        !.pc = "done"]]
    /\ UNCHANGED <<eng, idn, fmt, timers, calls, plex, pollingInterval, sessionById, userSessions, sessions,
                   users, violations, rules, ticksStarted>>

\* storage and cache
Committed ==
    [sessions |-> sessions, violations |-> violations, users |-> users,
     cache |-> cache, sessionById |-> sessionById, userSessions |-> userSessions]

\* PublishFails that puts back the snapshot the tick had read
PublishFailsRollsBack(t) ==
    /\ tick[t].pc = "publish"
    /\ TickEvents(tick[t]) # <<>>
    /\ faults < MaxFaults
    /\ faults' = faults + 1
    /\ cache' = tick[t].cachedSessions
    /\ \E k \in 0..(Len(TickEvents(tick[t])) - 1) :
          tick' = [tick EXCEPT ![t] =
                      [tick[t] EXCEPT
                          !.events = @ \o SubSeq(TickEvents(tick[t]), 1, k),
                          !.failedAt = "publish",
                          !.committed = <<Committed>>,
                          !.pc = "done"]]
    /\ UNCHANGED <<eng, idn, fmt, timers, calls, plex, pollingInterval, sessionById, userSessions, sessions,
                   users, violations, rules, ticksStarted>>

\* a publish call rejects after k events went out: the catch logs and
\* pollServers returns, the remaining events are not published
PublishFails(t) ==
    /\ tick[t].pc = "publish"
    /\ TickEvents(tick[t]) # <<>>
    /\ faults < MaxFaults
    /\ faults' = faults + 1
    /\ cache' = cache
    /\ \E k \in 0..(Len(TickEvents(tick[t])) - 1) :
          tick' = [tick EXCEPT ![t] =
                      [tick[t] EXCEPT
                          !.events = @ \o SubSeq(TickEvents(tick[t]), 1, k),
                          !.failedAt = "publish",
                          !.committed = <<Committed>>,
                          !.pc = "done"]]
    /\ UNCHANGED <<eng, idn, fmt, timers, calls, plex, pollingInterval, sessionById, userSessions, sessions,
                   users, violations, rules, ticksStarted>>

-----------------------------------------------------------------------------
(* The poller *)

Init ==
    /\ pollingInterval = FALSE
    /\ cache = <<>>
    /\ sessionById = {}
    /\ userSessions = {}
    /\ sessions = <<>>
    /\ users = <<>>
    /\ violations = <<>>
    /\ rules = ActiveRulesInit
    /\ tick = [t \in TickIds |-> IdleTick]
    /\ ticksStarted = 0
    /\ faults = 0
    /\ timers = 0
    /\ calls = <<>>
    /\ plex = IdlePlex
    /\ eng = IdleEngine
    /\ idn = IdleResolver
    /\ fmt = IdleFormatter

\* the steps of the calls of pollServers in flight
TickStep ==
    \/ \E t \in TickIds : FetchOk(t)
    \/ \E t \in TickIds : FetchFail(t)
    \/ \E t \in TickIds : InsertSession(t)
    \/ \E t \in TickIds : InsertNoRow(t)
    \/ \E t \in TickIds : InsertThrows(t)
    \/ \E t \in TickIds : UpdateSession(t)
    \/ \E t \in TickIds : UpdateThrows(t)
    \/ \E t \in TickIds : EvaluateRules(t)
    \/ \E t \in TickIds : FindStopped(t)
    \/ \E t \in TickIds : CacheUpdate(t)
    \/ \E t \in TickIds : Publish(t)

\* no timing assumed: the timer fires and triggerPoll is called whatever
\* the earlier calls of pollServers are doing
Next ==
    \/ (ticksStarted < MaxOverlapTicks /\ StartPoller)
    \/ (ticksStarted < MaxOverlapTicks /\ TimerFire)
    \/ (ticksStarted < MaxOverlapTicks /\ TriggerPoll)
    \/ StopPoller
    \/ TickStep

Spec == Init /\ [][Next]_vars

\* every call of pollServers returns before the next one is made: a tick
\* takes less than the interval and triggerPoll is not used; stopPoller can
\* be called at any time
NoTickInFlight == \A t \in TickIds : ~InFlight(t)

NextSerial ==
    \/ (ticksStarted < MaxTicks /\ NoTickInFlight /\ StartPoller)
    \/ (ticksStarted < MaxTicks /\ NoTickInFlight /\ TimerFire)
    \/ StopPoller
    \/ TickStep

SpecSerial == Init /\ [][NextSerial]_vars

\* the same with longer runs: long enough for a session key to be seen,
\* to go away, to be seen again and to be seen once more
NextSerialLong ==
    \/ (ticksStarted < MaxLongTicks /\ NoTickInFlight /\ StartPoller)
    \/ (ticksStarted < MaxLongTicks /\ NoTickInFlight /\ TimerFire)
    \/ StopPoller
    \/ TickStep

SpecSerialLong == Init /\ [][NextSerialLong]_vars

\* the steps at which the outer catch of pollServers ends a tick
TickFault ==
    \/ \E t \in TickIds : LoadFails(t)
    \/ \E t \in TickIds : CacheWriteFails(t)
    \/ \E t \in TickIds : PublishFails(t)

\* the poller is started and not stopped; any call of a tick may fail; a
\* tick takes less than the interval
NextLive ==
    \/ (ticksStarted < MaxLiveTicks /\ NoTickInFlight /\ StartPoller)
    \/ (ticksStarted < MaxLiveTicks /\ NoTickInFlight /\ TimerFire)
    \/ TickStep
    \/ TickFault

\* every awaited call settles, and the interval timer of a started poller
\* fires again
SpecLive ==
    /\ Init
    /\ [][NextLive]_vars
    /\ WF_vars(TickStep)
    /\ WF_vars(ticksStarted < MaxLiveTicks /\ NoTickInFlight /\ TimerFire)

\* the rules API replaces the active rules in storage, at any time
ChangeRules ==
    /\ rules = ActiveRulesInit
    /\ rules' = AltRules
    /\ UNCHANGED <<eng, idn, fmt, timers, calls, plex, pollingInterval, cache, sessionById, userSessions,
                   sessions, users, violations, tick, ticksStarted, faults>>

\* one tick at a time, while the rules in storage can change and a publish
\* call of createViolation can reject
NextStore ==
    \/ (ticksStarted < MaxStoreTicks /\ NoTickInFlight /\ StartPoller)
    \/ (ticksStarted < MaxStoreTicks /\ NoTickInFlight /\ TimerFire)
    \/ TickStep
    \/ ChangeRules
    \/ \E t \in TickIds : ViolationPublishFails(t)

SpecStore == Init /\ [][NextStore]_vars

\* startPoller and stopPoller called at any time and with any config, and
\* the timer firing; the calls of pollServers they start stay in flight
\* (their steps read and write neither pollingInterval nor the timers)
NextControl ==
    \/ \E enabled \in BOOLEAN :
          Len(calls) < MaxControlCalls /\ StartPollerCalled(enabled)
    \/ (Len(calls) < MaxControlCalls /\ StopPollerCalled)
    \/ TimerFire

SpecControl == Init /\ [][NextControl]_vars

-----------------------------------------------------------------------------
(* The new-session path on its own *)

\* a provider reports a session gap hours after the last one: the row is
\* inserted, the rules are evaluated on it and the user's recent rows, and
\* a violation is created for every result
ObserveSession(client, gap) ==
    /\ eng.rules # <<>>
    /\ Len(eng.sessions) < MaxEngineRows
    /\ LET now == eng.now + gap
           session == TimedSession(Len(eng.sessions) + 1, client, now)
           tbl == Append(eng.sessions, session)
           recentSessions == getRecentUserSessionsAt(tbl, session.userId, now)
           threw == evaluateSessionThrows(session, eng.rules, recentSessions)
           ruleResults == evaluateSession(session, eng.rules, recentSessions)
           created == IF threw THEN <<>>
                      ELSE CreatedViolations(eng.rules, session, ruleResults)
       IN  eng' = [eng EXCEPT
                      !.now = now,
                      !.sessions = tbl,
                      !.violations = @ \o created,
                      !.users = ApplyPenalties(@, created),
                      !.last = <<[session |-> session,
                                  recentSessions |-> recentSessions,
                                  threw |-> threw,
                                  ruleResults |-> ruleResults,
                                  created |-> created]>>]
    /\ UNCHANGED <<idn, fmt, timers, calls, plex, pollingInterval, cache, sessionById, userSessions, sessions,
                   users, violations, rules, tick, ticksStarted, faults>>

InitEngine ==
    /\ pollingInterval = FALSE
    /\ cache = <<>>
    /\ sessionById = {}
    /\ userSessions = {}
    /\ sessions = <<>>
    /\ users = <<>>
    /\ violations = <<>>
    /\ rules = ActiveRulesInit
    /\ tick = [t \in TickIds |-> IdleTick]
    /\ ticksStarted = 0
    /\ faults = 0
    /\ timers = 0
    /\ calls = <<>>
    /\ plex = IdlePlex
    /\ idn = IdleResolver
    /\ fmt = IdleFormatter
    /\ \E list \in RuleLists : eng = [IdleEngine EXCEPT !.rules = list]

NextEngine ==
    \E client \in EngineClients, gap \in Gaps : ObserveSession(client, gap)

SpecEngine == InitEngine /\ [][NextEngine]_vars

-----------------------------------------------------------------------------
(* Identity resolution on its own *)

UserNames == {"alice", "al"}
UserThumbs == {"", "t1", "t2"}
ExternalIds == {"alice", "bob"}

\* the session loop resolves the user of a reported session: findOrCreateUser
\* with the reported name and processed.userThumb || null
ObserveUser(serverId, externalId, username, userThumb) ==
    /\ (FindUser(users, serverId, externalId) = NoId => Len(users) < MaxUserRows)
    /\ users' = findOrCreateUser(users, serverId, externalId, username,
                                 OrNull(userThumb))
    /\ idn' = [returned |-> idn.returned
                              \cup {<<serverId, externalId,
                                      findOrCreateUserId(users, serverId, externalId)>>},
               last |-> <<[serverId |-> serverId, externalId |-> externalId,
                           username |-> username, userThumb |-> userThumb,
                           existing |-> IF FindUser(users, serverId, externalId) = NoId
                                        THEN <<>>
                                        ELSE <<users[FindUser(users, serverId,
                                                              externalId)]>>,
                           id |-> findOrCreateUserId(users, serverId, externalId),
                           updated |->
                               /\ FindUser(users, serverId, externalId) # NoId
                               /\ needsUpdate(users[FindUser(users, serverId, externalId)],
                                              username, OrNull(userThumb))]>>]
    /\ UNCHANGED <<eng, fmt, timers, calls, plex, pollingInterval, cache, sessionById, userSessions,
                   sessions, violations, rules, tick, ticksStarted, faults>>

NextUsers ==
    \E i \in 1..Len(Servers), externalId \in ExternalIds,
       username \in UserNames, userThumb \in UserThumbs :
        ObserveUser(Servers[i], externalId, username, userThumb)

SpecUsers == Init /\ [][NextUsers]_vars

-----------------------------------------------------------------------------
(* The violation helpers on their own *)

\* formatEvidenceDetails is called with the evidence and the unit system
FormatDetails ==
    /\ ~fmt.done
    /\ fmt' = [fmt EXCEPT !.details = formatEvidenceDetails(fmt.evidence, fmt.unitSystem),
                          !.done = TRUE]
    /\ UNCHANGED <<eng, idn, timers, calls, plex, pollingInterval, cache, sessionById, userSessions,
                   sessions, users, violations, rules, tick, ticksStarted, faults>>

InitFormat ==
    /\ pollingInterval = FALSE
    /\ cache = <<>>
    /\ sessionById = {}
    /\ userSessions = {}
    /\ sessions = <<>>
    /\ users = <<>>
    /\ violations = <<>>
    /\ rules = ActiveRulesInit
    /\ tick = [t \in TickIds |-> IdleTick]
    /\ ticksStarted = 0
    /\ faults = 0
    /\ timers = 0
    /\ calls = <<>>
    /\ plex = IdlePlex
    /\ eng = IdleEngine
    /\ idn = IdleResolver
    /\ \E evidence \in EvidenceInputs, unitSystem \in UnitSystems :
          fmt = [IdleFormatter EXCEPT !.evidence = evidence,
                                      !.unitSystem = unitSystem]

NextFormat == FormatDetails

SpecFormat == InitFormat /\ [][NextFormat]_vars

-----------------------------------------------------------------------------
(* Plex normalization on its own *)

\* a session reported by a Plex server is mapped
MapSession ==
    /\ ~plex.done
    /\ plex' = [plex EXCEPT !.processed = <<mapPlexSession(plex.session)>>,
                            !.done = TRUE]
    /\ UNCHANGED <<eng, idn, fmt, timers, calls, pollingInterval, cache, sessionById,
                   userSessions, sessions, users, violations, rules, tick,
                   ticksStarted, faults>>

InitPlex ==
    /\ pollingInterval = FALSE
    /\ cache = <<>>
    /\ sessionById = {}
    /\ userSessions = {}
    /\ sessions = <<>>
    /\ users = <<>>
    /\ violations = <<>>
    /\ rules = ActiveRulesInit
    /\ tick = [t \in TickIds |-> IdleTick]
    /\ ticksStarted = 0
    /\ timers = 0
    /\ calls = <<>>
    /\ faults = 0
    /\ eng = IdleEngine
    /\ idn = IdleResolver
    /\ fmt = IdleFormatter
    /\ \E session \in PlexSessions : plex = [IdlePlex EXCEPT !.session = session]

NextPlex == MapSession

SpecPlex == InitPlex /\ [][NextPlex]_vars

-----------------------------------------------------------------------------
(* Properties of a tick *)

\* the tick has written the snapshot
HasWritten(t) == tick[t].written # <<>>

\* the scoped keys of a list of sessions that belong to a server
KeysOfServer(list, serverId) == {k \in Range(KeysOf(list)) : k[1] = serverId}

\* the ids of the sessions for which the tick has evaluated the rules
Evaluated(t) == {e.sessionId : e \in tick[t].evalLog}

\* C1: the snapshot a tick writes holds exactly the sessions of its new and
\* updated batches, over all servers, and none of the keys of its stopped batch
C1_SnapshotIsNewAndUpdated ==
    \A t \in TickIds :
        HasWritten(t) =>
            /\ IdsOf(tick[t].written[1])
                  = IdsOf(tick[t].allNewSessions) \cup IdsOf(tick[t].allUpdatedSessions)
            /\ Range(KeysOf(tick[t].written[1]))
                  = Range(KeysOf(tick[t].allNewSessions))
                      \cup Range(KeysOf(tick[t].allUpdatedSessions))
            /\ Len(tick[t].written[1])
                  = Len(tick[t].allNewSessions) + Len(tick[t].allUpdatedSessions)
            /\ Range(KeysOf(tick[t].written[1])) \cap Range(tick[t].allStoppedKeys) = {}

\* a tick wrote a snapshot with a new and an updated session while it
\* classified another session stopped
C1_Witness ==
    \E t \in TickIds :
        /\ HasWritten(t)
        /\ tick[t].allNewSessions # <<>>
        /\ tick[t].allUpdatedSessions # <<>>
        /\ tick[t].allStoppedKeys # <<>>

\* C2: in a tick in which the fetch of a server failed, no cached session of
\* that server is marked stopped: none of its keys is in the stopped batch,
\* the tick closes none of its rows and publishes no session-stopped for it
C2_FetchFailureStopsNothing ==
    \A t \in TickIds :
        \A srv \in tick[t].fetchFailed :
            /\ \A k \in Range(tick[t].allStoppedKeys) : k[1] # srv
            /\ \A id \in tick[t].closed : sessions[id].serverId # srv
            /\ \A e \in Range(tick[t].events) :
                  e.topic = "session:stopped" => sessions[e.id].serverId # srv

\* a tick has ended in which the fetch failed for a server with a cached session
C2_Witness ==
    \E t \in TickIds :
        /\ tick[t].pc = "done"
        /\ \E srv \in tick[t].fetchFailed :
              KeysOfServer(tick[t].cachedSessions, srv) # {}

\* C3: when the fetch of a server fails in a tick, every other server gets
\* the classification its own report and cached keys give it, its new
\* sessions have their rows, and the tick goes on to the cache update and
\* the publication, which hold these sessions
C3_OtherServersUnaffected ==
    \A t \in TickIds :
        tick[t].fetchFailed # {} =>
            /\ tick[t].pc = "done" => tick[t].srv > Len(Servers) /\ HasWritten(t)
            /\ \A i \in 1..Len(Servers) :
                  LET srv == Servers[i]
                      cached == KeysOfServer(tick[t].cachedSessions, srv)
                      reported == {k \in tick[t].reported : k[1] = srv}
                  IN  (tick[t].srv > Len(Servers)
                        /\ srv \notin tick[t].fetchFailed \cup tick[t].threw) =>
                        /\ KeysOfServer(tick[t].allNewSessions, srv)
                              = (reported \ cached) \ tick[t].selfFailed
                        /\ KeysOfServer(tick[t].allUpdatedSessions, srv)
                              = reported \cap cached
                        /\ {k \in Range(tick[t].allStoppedKeys) : k[1] = srv}
                              = cached \ reported
                        /\ \A n \in Range(tick[t].allNewSessions) :
                              n.serverId = srv =>
                                /\ n.id \in tick[t].inserted
                                /\ sessions[n.id].sessionKey = n.sessionKey
                        /\ HasWritten(t) =>
                              KeysOfServer(tick[t].written[1], srv) = reported \ tick[t].selfFailed
                        /\ tick[t].pc = "done" =>
                              /\ \A n \in Range(tick[t].allNewSessions) :
                                    [topic |-> "session:started", id |-> n.id]
                                        \in Range(tick[t].events)
                              /\ \A u \in Range(tick[t].allUpdatedSessions) :
                                    [topic |-> "session:updated", id |-> u.id]
                                        \in Range(tick[t].events)

\* a tick has ended in which the fetch of s2 failed and s1 had a new session
\* and an updated or a stopped one
C3_Witness ==
    \E t \in TickIds :
        /\ tick[t].pc = "done"
        /\ tick[t].fetchFailed = {"s2"}
        /\ KeysOfServer(tick[t].allNewSessions, "s1") # {}
        /\ \/ KeysOfServer(tick[t].allUpdatedSessions, "s1") # {}
           \/ tick[t].allStoppedKeys # <<>>

\* C4: at most one timer-driven tick, the immediate one of startPoller
\* included, is in flight at any time
C4_TimerTicksNeverOverlap ==
    Cardinality({t \in TickIds :
                    InFlight(t) /\ tick[t].kind \in {"immediate", "timer"}}) <= 1

\* C5: a manual tick is never in flight together with a timer-driven tick
C5_ManualTickNeverOverlaps ==
    ~ \E t, u \in TickIds :
        /\ InFlight(t) /\ tick[t].kind = "manual"
        /\ InFlight(u) /\ tick[u].kind \in {"immediate", "timer"}

\* C6: for every new session whose rules were evaluated, every active rule
\* that evaluated to violated has exactly one Violation with its id and the
\* session's id, and every other active rule has none
C6_OneViolationPerViolatedRule ==
    \A t \in TickIds :
        \A e \in tick[t].evalLog :
            \A r \in Range(tick[t].activeRules) :
                Cardinality({i \in 1..Len(violations) :
                                /\ violations[i].sessionId = e.sessionId
                                /\ violations[i].ruleId = r.id})
                    = IF r.id \in e.violated THEN 1 ELSE 0

\* C7: a closed Session row is never changed by a later step
C7_ClosedRowsNeverChange ==
    [][\A i \in 1..Len(sessions) :
          sessions[i].stoppedAt => sessions'[i] = sessions[i]]_vars

\* C8: for a new session of a tick the insert comes before the evaluation,
\* the evaluation before the cache write that holds it, and the cache write
\* before its session-started event
C8_PersistEvaluateCachePublish ==
    \A t \in TickIds :
        /\ \A id \in Evaluated(t) :
              id \in tick[t].inserted /\ id <= Len(sessions)
        /\ HasWritten(t) =>
              \A n \in Range(tick[t].allNewSessions) : n.id \in Evaluated(t)
        /\ \A e \in Range(tick[t].events) :
              e.topic = "session:started" =>
                  /\ HasWritten(t)
                  /\ e.id \in IdsOf(tick[t].written[1])
                  /\ e.id \in IdsOf(tick[t].allNewSessions)

\* a tick has published session-started for a new session
C8_Witness ==
    \E t \in TickIds :
        \E e \in Range(tick[t].events) : e.topic = "session:started"

\* C9: a tick during which stopPoller was called ends only after it has
\* processed every server, written the snapshot and published its events
C9_StopLetsTickFinish ==
    \A t \in TickIds :
        tick[t].stopSeen /\ tick[t].pc = "done" =>
            /\ tick[t].srv = Len(Servers) + 1
            /\ HasWritten(t)
            /\ \A n \in Range(tick[t].allNewSessions) :
                  [topic |-> "session:started", id |-> n.id] \in Range(tick[t].events)

\* a tick with a new session has ended after stopPoller was called while it
\* was processing its first server
C9_Witness ==
    \E t \in TickIds :
        /\ tick[t].stopSeen
        /\ tick[t].pc = "done"
        /\ tick[t].allNewSessions # <<>>

\* C10: when the insert or the update of one reported session fails, that
\* session is not in the snapshot the tick writes and every other session
\* the server reported is
C10_OnlyFailedSessionSkipped ==
    \A t \in TickIds :
        HasWritten(t) =>
            \A k \in tick[t].reported :
                k \in Range(KeysOf(tick[t].written[1])) <=> k \notin tick[t].selfFailed

-----------------------------------------------------------------------------
(* Properties of the rule evaluation of a new session *)

\* the rules of the last evaluation of the given type whose params are not null
RulesOfType(type) ==
    {r \in Range(eng.rules) : r.type = type /\ ~IsNullParams(r.params)}

\* the rule's scope is global or names the session's user
InScope(rule, session) == rule.userId = NoId \/ rule.userId = session.userId

\* both sessions carry the same, non-empty device id
ShareDevice(session, s) ==
    s.deviceId = session.deviceId /\ session.deviceId \notin {NULL, ""}

\* the history sessions other than the triggering one
OtherSessions(c) ==
    {s \in Range(c.recentSessions) : s.id # c.session.id}

\* C11: an evaluation with a rule whose params are null does not reject, and
\* returns a result for every other rule that evaluates to violated
C11_MalformedRuleFailsClosed ==
    eng.last # <<>> =>
        LET c == eng.last[1]
            violatedRules ==
                {i \in 1..Len(eng.rules) :
                    /\ ~IsNullParams(eng.rules[i].params)
                    /\ evaluateRule(eng.rules[i], c.session, c.recentSessions).violated}
        IN  /\ ~c.threw
            /\ Len(c.ruleResults) = Cardinality(violatedRules)

\* the outer or an inner catch ended a step of the tick
TickFailed(t) ==
    \/ tick[t].failedAt # "none"
    \/ tick[t].fetchFailed # {}
    \/ tick[t].threw # {}
    \/ tick[t].selfFailed # {}

\* C12: after a publish call of a tick has rejected, the Session rows, the
\* Violations, the users and the cache are as they were before the call:
\* the rows the tick inserted are there, the rows it closed are closed and
\* the snapshot is the one it wrote
C12_PublishFailureRollsBackNothing ==
    \A t \in TickIds :
        (tick[t].pc = "done" /\ tick[t].failedAt = "publish") =>
            /\ tick[t].committed = <<Committed>>
            /\ cache = tick[t].written[1]
            /\ \A id \in tick[t].inserted : id <= Len(sessions)
            /\ \A id \in tick[t].closed : sessions[id].stoppedAt
            /\ \A e \in tick[t].evalLog :
                  \A id \in e.violated :
                      \E i \in 1..Len(violations) :
                          violations[i].sessionId = e.sessionId

\* a publish call rejected in a tick that had inserted a row and created a
\* Violation and whose snapshot differs from the one it had read
C12_Witness ==
    \E t \in TickIds :
        /\ tick[t].pc = "done"
        /\ tick[t].failedAt = "publish"
        /\ tick[t].inserted # {}
        /\ \E e \in tick[t].evalLog : e.violated # {}
        /\ tick[t].written[1] # tick[t].cachedSessions

\* C13: a tick with a failed step leaves the poller started, and after the
\* n-th call of pollServers had a failed step the timer starts a later call
C13_FailedTickDoesNotStopPoller ==
    /\ [](\A t \in TickIds : TickFailed(t) => pollingInterval)
    /\ \A n \in 1..(MaxLiveTicks - 1) :
          (ticksStarted = n /\ \E t \in TickIds : TickFailed(t))
             ~> (ticksStarted > n /\ \E t \in TickIds : tick[t].kind = "timer")

\* the timer has started a call of pollServers after a call that failed at
\* the load, the cache write or the publication
C13_Witness ==
    /\ ticksStarted > 1
    /\ faults > 0
    /\ \E t \in TickIds : tick[t].kind = "timer" /\ ~TickFailed(t)

\* C14: no user's trustScore is below 0
C14_TrustScoreNeverNegative ==
    /\ \A u \in 1..Len(eng.users) : eng.users[u].trustScore >= 0
    /\ \A u \in 1..Len(users) : users[u].trustScore >= 0

\* the penalties of a list of violations of a user
RECURSIVE SumPenalties(_, _)
SumPenalties(list, userId) ==
    IF list = <<>> THEN 0
    ELSE (IF Head(list).userId = userId THEN trustPenalty(Head(list).severity) ELSE 0)
         + SumPenalties(Tail(list), userId)

\* a user's violations add up to more than the score the user started with
C14_Witness ==
    \E u \in 1..Len(eng.users) :
        /\ SumPenalties(eng.violations, u) > DefaultTrustScore
        /\ eng.users[u].trustScore = 0

\* C15: evaluateSession returns results only from rules whose scope is
\* global or names the session's user, one for each of them that evaluates
\* to violated, and no Violation stored for the session carries the id of
\* a rule scoped to another user
C15_ScopedRuleSkippedForOtherUser ==
    (eng.last # <<>> /\ ~eng.last[1].threw) =>
        LET c == eng.last[1]
            violatedInScope ==
                {i \in 1..Len(eng.rules) :
                    /\ InScope(eng.rules[i], c.session)
                    /\ evaluateRule(eng.rules[i], c.session, c.recentSessions).violated}
        IN  /\ Len(c.ruleResults) = Cardinality(violatedInScope)
            /\ \A i \in 1..Len(c.created) :
                  \A r \in Range(eng.rules) :
                      r.id = c.created[i].ruleId => InScope(r, c.session)

\* C16: no history session that shares the triggering session's non-empty
\* device id is among the sessions concurrent_streams counts (the related
\* sessions of the check with a limit of 0 streams) or among the conflicting
\* sessions of simultaneous_locations (with any minimum distance)
C16_SameDeviceNeverCounted ==
    eng.last # <<>> =>
        LET c == eng.last[1]
            counted == checkConcurrentStreams(c.session, c.recentSessions,
                                              [maxStreams |-> 0]).data.relatedSessionIds
            conflicting == conflictingSessions(c.session, c.recentSessions,
                                               [minDistanceKm |-> -1])
        IN  \A s \in Range(c.recentSessions) :
                ShareDevice(c.session, s) =>
                    /\ s.id \notin Range(counted)
                    /\ s \notin Range(conflicting)

\* an earlier playing session on the triggering session's device, at another
\* place, was in the history
C16_Witness ==
    /\ eng.last # <<>>
    /\ \E s \in OtherSessions(eng.last[1]) :
          /\ ShareDevice(eng.last[1].session, s)
          /\ s.state = "playing"
          /\ HasCoords(s)
          /\ s.geoLat # eng.last[1].session.geoLat

\* C17: a concurrent_streams rule evaluates to violated, with severity low,
\* exactly when the user's other playing sessions that do not share the
\* triggering session's device, plus one, are more than maxStreams
C17_ConcurrentStreamsCount ==
    eng.last # <<>> =>
        LET c == eng.last[1]
            others == {s \in OtherSessions(c) :
                          /\ s.userId = c.session.userId
                          /\ s.state = "playing"
                          /\ ~ShareDevice(c.session, s)}
        IN  \A r \in RulesOfType("concurrent_streams") :
                LET res == evaluateRule(r, c.session, c.recentSessions)
                IN  /\ res.violated <=> Cardinality(others) + 1 > r.params.maxStreams
                    /\ res.violated => res.severity = "low"

\* C18: an impossible_travel rule evaluates to violated, with severity high,
\* exactly when the triggering session has coordinates and some session of
\* the history of the same user has coordinates, started a positive number
\* of hours earlier and is further away than maxSpeedKmh times these hours
C18_ImpossibleTravel ==
    eng.last # <<>> =>
        LET c == eng.last[1]
            tooFast(r) ==
                {s \in Range(c.recentSessions) :
                    /\ s.userId = c.session.userId
                    /\ s.geoLat # NullCoord /\ s.geoLon # NullCoord
                    /\ c.session.startedAt - s.startedAt > 0
                    /\ calculateDistance(s.geoLat, s.geoLon,
                                         c.session.geoLat, c.session.geoLon)
                            > r.params.maxSpeedKmh * (c.session.startedAt - s.startedAt)}
        IN  \A r \in RulesOfType("impossible_travel") :
                LET res == evaluateRule(r, c.session, c.recentSessions)
                IN  /\ res.violated <=>
                          /\ c.session.geoLat # NullCoord
                          /\ c.session.geoLon # NullCoord
                          /\ tooFast(r) # {}
                    /\ res.violated => res.severity = "high"

\* an impossible_travel rule was violated while the history also held an
\* earlier session at another place that was not too fast
C18_Witness ==
    /\ eng.last # <<>>
    /\ \E r \in RulesOfType("impossible_travel") :
          /\ evaluateRule(r, eng.last[1].session, eng.last[1].recentSessions).violated
          /\ \E s \in OtherSessions(eng.last[1]) :
                /\ HasCoords(s)
                /\ eng.last[1].session.startedAt - s.startedAt > 0
                /\ calculateDistance(s.geoLat, s.geoLon, eng.last[1].session.geoLat,
                                     eng.last[1].session.geoLon)
                      \in 1..(r.params.maxSpeedKmh
                                * (eng.last[1].session.startedAt - s.startedAt))

\* C19: a geo_restriction rule evaluates to violated, with severity high,
\* exactly when the session has a country, the list is not empty and the
\* country is in the list (blocklist, also when no mode is given) or not in
\* the list (allowlist)
C19_GeoRestriction ==
    eng.last # <<>> =>
        LET c == eng.last[1]
            country == c.session.geoCountry
        IN  \A r \in RulesOfType("geo_restriction") :
                LET res == evaluateRule(r, c.session, c.recentSessions)
                    mode == IF "mode" \in DOMAIN r.params THEN r.params.mode
                            ELSE "blocklist"
                    listed == \E i \in 1..Len(r.params.countries) :
                                  r.params.countries[i] = country
                IN  /\ res.violated <=>
                          /\ country # NULL
                          /\ Len(r.params.countries) > 0
                          /\ (mode = "blocklist" => listed)
                          /\ (mode = "allowlist" => ~listed)
                    /\ res.violated => res.severity = "high"
                    /\ country = NULL => ~res.violated

\* a session from a listed country violated the blocklist rule and the
\* rule without mode, not the allowlist rule
C19_Witness ==
    /\ eng.last # <<>>
    /\ eng.last[1].session.geoCountry = "CN"
    /\ \E r \in RulesOfType("geo_restriction") :
          "mode" \notin DOMAIN r.params
          /\ evaluateRule(r, eng.last[1].session, eng.last[1].recentSessions).violated
    /\ \E r \in RulesOfType("geo_restriction") :
          /\ "mode" \in DOMAIN r.params
          /\ r.params.mode = "allowlist"
          /\ Len(r.params.countries) > 0
          /\ ~evaluateRule(r, eng.last[1].session, eng.last[1].recentSessions).violated

\* C20: a device_velocity rule evaluates to violated, with severity warning,
\* exactly when the addresses of the user's sessions started in the last
\* windowHours, with the triggering session's address, are more than maxIps
C20_DeviceVelocityWindow ==
    eng.last # <<>> =>
        LET c == eng.last[1]
            ips(r) == {s.ipAddress : s \in
                          {x \in Range(eng.sessions) :
                              /\ x.userId = c.session.userId
                              /\ x.startedAt >= c.session.startedAt - r.params.windowHours
                              /\ x.startedAt <= c.session.startedAt}}
                      \cup {c.session.ipAddress}
        IN  \A r \in {x \in RulesOfType("device_velocity") :
                          {"maxIps", "windowHours"} \subseteq DOMAIN x.params} :
                LET res == evaluateRule(r, c.session, c.recentSessions)
                IN  /\ res.violated <=> Cardinality(ips(r)) > r.params.maxIps
                    /\ res.violated => res.severity = "warning"

\* C21: a simultaneous_locations rule evaluates to violated, with severity
\* warning, exactly when some session of the user in the history is playing,
\* has coordinates, does not share the triggering session's device id and is
\* further than minDistanceKm from the triggering session; relatedSessionIds
\* are the ids of these sessions, each once, and locations are the
\* triggering location followed by theirs, each once
C21_SimultaneousLocations ==
    eng.last # <<>> =>
        LET c == eng.last[1]
            far(r) ==
                {s \in Range(c.recentSessions) :
                    /\ s.userId = c.session.userId
                    /\ s.state = "playing"
                    /\ s.geoLat # NullCoord /\ s.geoLon # NullCoord
                    /\ c.session.geoLat # NullCoord /\ c.session.geoLon # NullCoord
                    /\ ~ShareDevice(c.session, s)
                    /\ calculateDistance(s.geoLat, s.geoLon,
                                         c.session.geoLat, c.session.geoLon)
                            > r.params.minDistanceKm}
            place(s) == [lat |-> s.geoLat, lon |-> s.geoLon, sessionId |-> s.id]
        IN  \A r \in RulesOfType("simultaneous_locations") :
                LET res == evaluateRule(r, c.session, c.recentSessions)
                IN  /\ res.violated <=> far(r) # {}
                    /\ res.violated =>
                          /\ res.severity = "warning"
                          /\ Range(res.data.relatedSessionIds) = {s.id : s \in far(r)}
                          /\ Len(res.data.relatedSessionIds) = Cardinality(far(r))
                          /\ res.data.locations[1] = place(c.session)
                          /\ Range(Tail(res.data.locations)) = {place(s) : s \in far(r)}
                          /\ Len(res.data.locations) = Cardinality(far(r)) + 1

\* a simultaneous_locations rule was violated while the history held a
\* session of the user further away than the minimum distance that was not
\* playing or was on the same device
C21_Witness ==
    /\ eng.last # <<>>
    /\ \E r \in RulesOfType("simultaneous_locations") :
          LET res == evaluateRule(r, eng.last[1].session, eng.last[1].recentSessions)
          IN  /\ res.violated
              /\ \E s \in OtherSessions(eng.last[1]) :
                    /\ HasCoords(s)
                    /\ s.id \notin Range(res.data.relatedSessionIds)
                    /\ calculateDistance(s.geoLat, s.geoLon, eng.last[1].session.geoLat,
                                         eng.last[1].session.geoLon)
                          > r.params.minDistanceKm

-----------------------------------------------------------------------------
(* Properties of the identity resolution *)

\* C22: table users has at most one row for a server and an external id,
\* every call of findOrCreateUser for the same pair has returned the same
\* id, and a call with the stored username and the stored thumbnail makes no
\* update and leaves the row as it was
C22_FindOrCreateUserIdempotent ==
    /\ \A i, j \in 1..Len(users) :
          (users[i].serverId = users[j].serverId
             /\ users[i].externalId = users[j].externalId) => i = j
    /\ \A a, b \in idn.returned :
          (a[1] = b[1] /\ a[2] = b[2]) => a[3] = b[3]
    /\ \A c \in Range(idn.last) :
          (/\ c.existing # <<>>
           /\ c.existing[1].username = c.username
           /\ c.existing[1].thumbUrl = OrNull(c.userThumb)) =>
              /\ ~c.updated
              /\ users[c.id] = c.existing[1]

\* the last call was for a stored user, with the stored name and the stored,
\* non-empty thumbnail, and another pair has a row too
C22_Witness ==
    /\ Len(users) > 1
    /\ \E c \in Range(idn.last) :
          /\ c.existing # <<>>
          /\ c.existing[1].username = c.username
          /\ c.existing[1].thumbUrl = c.userThumb
          /\ Truthy(c.userThumb)

\* C23: after findOrCreateUser for a stored user with a non-empty stored
\* thumbnail and an empty incoming one, the stored thumbnail is as before
C23_ThumbnailNotEmptied ==
    \A c \in Range(idn.last) :
        (/\ c.existing # <<>>
         /\ Truthy(c.existing[1].thumbUrl)
         /\ c.userThumb = "") =>
            users[c.id].thumbUrl = c.existing[1].thumbUrl

\* the last call had an empty thumbnail for a user with a stored one and
\* updated the username
C23_Witness ==
    \E c \in Range(idn.last) :
        /\ c.existing # <<>>
        /\ Truthy(c.existing[1].thumbUrl)
        /\ c.userThumb = ""
        /\ c.updated
        /\ users[c.id].username # c.existing[1].username

-----------------------------------------------------------------------------
(* Properties of a tick while storage changes *)

\* C24: a tick takes its rule list from storage when it starts and keeps it
\* while it is in flight; every rule evaluation of the tick uses that list
\* and every Violation of a session it evaluated carries the id of a rule
\* of that list
C24_RulesReadOncePerTick ==
    /\ [](\A t \in TickIds :
            \A e \in tick[t].evalLog :
                /\ e.rules = tick[t].activeRules
                /\ \A i \in 1..Len(violations) :
                      violations[i].sessionId = e.sessionId =>
                          \E r \in Range(tick[t].activeRules) :
                              r.id = violations[i].ruleId)
    /\ [][\A t \in TickIds :
            /\ InFlight(t) => tick'[t].activeRules = tick[t].activeRules
            /\ (~InFlight(t) /\ tick'[t].pc = "fetch") => tick'[t].activeRules = rules]_vars

\* the rules were replaced while a tick was in flight and the tick has
\* evaluated a session from the US with the list it had read: no Violation,
\* where the new list blocks the US
C24_Witness ==
    \E t \in TickIds :
        /\ rules = AltRules
        /\ tick[t].activeRules = ActiveRulesInit
        /\ \E e \in tick[t].evalLog :
              /\ sessions[e.sessionId].geoCountry = "US"
              /\ e.violated = {}
              /\ \A i \in 1..Len(violations) : violations[i].sessionId # e.sessionId

\* C29: when a publish call of createViolation has rejected in a tick, the
\* sessions the call for that server had processed, the one with the
\* Violation included, are in the snapshot the tick writes
C29_ViolationPublishFailureKeepsBatches ==
    \A t \in TickIds :
        HasWritten(t) =>
            tick[t].eventFailed \subseteq Range(KeysOf(tick[t].written[1]))

-----------------------------------------------------------------------------
(* Properties of the lifecycle of a session *)

\* C26: once a tick has processed a server whose fetch succeeded, the new
\* batch holds the keys the server reported that were not cached, the
\* updated batch the reported keys that were cached and the stopped batch
\* the server's cached keys that were not reported; the stopped keys a call
\* for a server finds are keys of that server
C26_ClassificationPartition ==
    \A t \in TickIds :
        /\ tick[t].pc = "stopped" =>
              \A k \in Range(StoppedSessionKeys(tick[t])) : k[1] = Servers[tick[t].srv]
        /\ \A i \in 1..Len(Servers) :
              LET srv == Servers[i]
                  cached == KeysOfServer(tick[t].cachedSessions, srv)
                  reported == {k \in tick[t].reported : k[1] = srv}
              IN  (tick[t].srv > i /\ srv \notin tick[t].fetchFailed) =>
                    /\ KeysOfServer(tick[t].allNewSessions, srv) = reported \ cached
                    /\ KeysOfServer(tick[t].allUpdatedSessions, srv) = reported \cap cached
                    /\ {k \in Range(tick[t].allStoppedKeys) : k[1] = srv}
                          = cached \ reported

\* C27: table sessions has at most one open row for a server and a session
\* key
C27_OneOpenRowPerKey ==
    \A i \in 1..Len(Servers) :
        \A j \in 1..Len(ServerKeys(Servers[i])) :
            Cardinality(OpenRowsOfKey(sessions, Servers[i], ServerKeys(Servers[i])[j])) <= 1

\* C28: when a tick has written the snapshot and returned, every session
\* of the snapshot it had read that is not in the new snapshot has a closed
\* row and a session-stopped event of the tick
C28_LeavesCacheOnlyWhenClosed ==
    \A t \in TickIds :
        (tick[t].pc = "done" /\ HasWritten(t)) =>
            \A s \in Range(tick[t].cachedSessions) :
                s.id \notin IdsOf(tick[t].written[1]) =>
                    /\ sessions[s.id].stoppedAt
                    /\ [topic |-> "session:stopped", id |-> s.id]
                          \in Range(tick[t].events)

\* C30: every rule evaluation of a tick is for a session the tick inserted,
\* whose key was not cached; a step for a cached session leaves table
\* violations as it is and leads to no rule evaluation; and every Violation
\* is added by the rule evaluation of a session the tick inserted
C30_OnlyNewSessionsEvaluated ==
    /\ [](\A t \in TickIds :
            \A e \in tick[t].evalLog :
                /\ e.sessionId \in tick[t].inserted
                /\ e.sessionId \notin IdsOf(tick[t].allUpdatedSessions)
                                        \cup IdsOf(tick[t].updatedSessions))
    /\ [][\A t \in TickIds :
            (tick[t].pc = "session" /\ ~IsNew(t) /\ tick'[t] # tick[t]) =>
                /\ violations' = violations
                /\ tick'[t].evalLog = tick[t].evalLog
                /\ tick'[t].pc # "evaluate"]_vars
    /\ [][violations' # violations =>
            \E t \in TickIds :
                /\ tick[t].pc = "evaluate"
                /\ tick[t].cur[1].id \in tick[t].inserted
                /\ \A i \in (Len(violations) + 1)..Len(violations') :
                      violations'[i].sessionId = tick[t].cur[1].id]_vars

\* a tick has updated a session from a blocked country, with the rule that
\* blocks it active, and has evaluated no rule for it
C30_Witness ==
    \E t \in TickIds :
        /\ tick[t].pc = "done"
        /\ \E r \in Range(tick[t].activeRules) : r.type = "geo_restriction"
        /\ \E u \in Range(tick[t].allUpdatedSessions) :
              /\ u.geoCountry = "CN"
              /\ u.state = "playing"
              /\ u.id \notin Evaluated(t)

\* C31: a step that classifies a session as updated changes, in table
\* sessions, only the state of the row the cache holds for the session:
\* that row keeps its identity, user, address and geo fields, every other
\* row is left as it was, and no row is added
C31_UpdatePatchesOnlyItsRow ==
    [][\A t \in TickIds :
          (/\ tick[t].pc = "session"
           /\ tick'[t] # tick[t]
           /\ ~IsNew(t))
          => LET own == FindCached(tick[t], CurKey(t))[1].id
             IN  /\ Len(sessions') = Len(sessions)
                 /\ \A i \in 1..Len(sessions) :
                        IF i = own
                        THEN sessions'[i] = [sessions[i] EXCEPT !.state = sessions'[i].state]
                        ELSE sessions'[i] = sessions[i]]_vars

\* C32: when a tick has run to its end, for every key it classified stopped
\* the row of the session the cache held under the key is closed with state
\* stopped, the id of that session is in neither the per-session cache nor
\* the per-user index, and exactly one session-stopped event carries it
C32_StoppedSessionIsClosed ==
    \A t \in TickIds :
        (tick[t].pc = "done" /\ tick[t].failedAt = "none") =>
            \A k \in Range(tick[t].allStoppedKeys) :
                LET s == FindCached(tick[t], k)[1]
                IN  /\ sessions[s.id].stoppedAt
                    /\ sessions[s.id].state = "stopped"
                    /\ s.id \notin sessionById
                    /\ <<s.userId, s.id>> \notin userSessions
                    /\ Cardinality({i \in 1..Len(tick[t].events) :
                                      tick[t].events[i] =
                                          [topic |-> "session:stopped", id |-> s.id]}) = 1

\* C33: when a tick has run to its end, the per-session cache holds exactly
\* the ids of the sessions of the snapshot and the per-user index exactly
\* their (userId, id) pairs
C33_IndexesMatchSnapshot ==
    \A t \in TickIds :
        (tick[t].pc = "done" /\ tick[t].failedAt = "none" /\ NoTickInFlight) =>
            /\ sessionById = IdsOf(cache)
            /\ userSessions = {<<cache[i].userId, cache[i].id>> : i \in 1..Len(cache)}

\* the row inserted when the key was last classified new: rows are appended,
\* so it is the last row of the key
IsLastRowOfKey(id, serverId, sessionKey) ==
    /\ id \in RowsOfKey(sessions, serverId, sessionKey)
    /\ \A j \in RowsOfKey(sessions, serverId, sessionKey) : j <= id

\* C34: when a tick has run to its end, every session of the snapshot, and
\* so every session whose session-updated event the tick published, has the
\* id of the last row inserted for its key, and that row is open; every
\* session-stopped event of the tick carries the id of the last row inserted
\* for the stopped key
C34_SnapshotIdIsOpenRowOfKey ==
    \A t \in TickIds :
        (tick[t].pc = "done" /\ tick[t].failedAt = "none" /\ NoTickInFlight) =>
            /\ \A i \in 1..Len(cache) :
                    /\ IsLastRowOfKey(cache[i].id, cache[i].serverId, cache[i].sessionKey)
                    /\ ~sessions[cache[i].id].stoppedAt
            /\ \A i \in 1..Len(tick[t].allUpdatedSessions) :
                    LET u == tick[t].allUpdatedSessions[i]
                    IN  /\ [topic |-> "session:updated", id |-> u.id] \in Range(tick[t].events)
                        /\ IsLastRowOfKey(u.id, u.serverId, u.sessionKey)
            /\ \A i \in 1..Len(StoppedCached(tick[t])) :
                    LET s == StoppedCached(tick[t])[i]
                    IN  /\ [topic |-> "session:stopped", id |-> s.id] \in Range(tick[t].events)
                        /\ IsLastRowOfKey(s.id, s.serverId, s.sessionKey)

-----------------------------------------------------------------------------
(* Properties of the rules that measure distance *)

\* the history without the sessions that lack a latitude or a longitude
Located(recentSessions) ==
    SelectSeq(recentSessions, LAMBDA s : s.geoLat # NullCoord /\ s.geoLon # NullCoord)

\* C36: an impossible_travel or simultaneous_locations rule does not
\* evaluate to violated for a triggering session without latitude or
\* longitude, and its result is the result for the history without the
\* sessions that lack a latitude or a longitude: no distance is computed
\* from a missing coordinate
C36_MissingCoordinatesNeverViolate ==
    eng.last # <<>> =>
        LET c == eng.last[1]
        IN  \A r \in RulesOfType("impossible_travel")
                        \cup RulesOfType("simultaneous_locations") :
                LET res == evaluateRule(r, c.session, c.recentSessions)
                IN  /\ (c.session.geoLat = NullCoord \/ c.session.geoLon = NullCoord)
                          => ~res.violated
                    /\ res = evaluateRule(r, c.session, Located(c.recentSessions))

\* a rule that measures distance is violated for a session whose history
\* holds, of the same user, a playing session without coordinates on
\* another device and, before it, a session with coordinates: the session
\* without coordinates was itself evaluated against a located history
C36_Witness ==
    /\ eng.last # <<>>
    /\ \E r \in RulesOfType("impossible_travel") \cup RulesOfType("simultaneous_locations") :
            evaluateRule(r, eng.last[1].session, eng.last[1].recentSessions).violated
    /\ \E s0, s1 \in OtherSessions(eng.last[1]) :
            /\ s0.userId = eng.last[1].session.userId
            /\ s0.geoLat = NullCoord /\ s0.geoLon = NullCoord
            /\ s0.state = "playing"
            /\ ~ShareDevice(eng.last[1].session, s0)
            /\ s1.userId = s0.userId
            /\ s1.id < s0.id
            /\ s1.geoLat # NullCoord /\ s1.geoLon # NullCoord
            /\ s1.state = "playing"
            /\ ~ShareDevice(s0, s1)

-----------------------------------------------------------------------------
(* Properties of the trust score *)

\* a trustScore after the violations of the list recorded for the user, one
\* after the other: max(0, trustScore - p(s)) with p(high) = 20,
\* p(warning) = 10 and p(low) = 5
RECURSIVE ScoreAfter(_, _, _)
ScoreAfter(score, list, userId) ==
    IF list = <<>> THEN score
    ELSE LET p == CASE Head(list).severity = "high" -> 20
                    [] Head(list).severity = "warning" -> 10
                    [] Head(list).severity = "low" -> 5
             lower == IF score - p > 0 THEN score - p ELSE 0
         IN  ScoreAfter(IF Head(list).userId = userId THEN lower ELSE score,
                        Tail(list), userId)

\* C35: a step that records violations takes every user's trustScore to
\* max(0, trustScore - p(s)) for each violation of severity s recorded for
\* that user, in turn: the trustScore of a user for whom the step records
\* no violation is unchanged
C35_TrustScorePenalty ==
    [][LET added == SubSeq(eng'.violations, Len(eng.violations) + 1, Len(eng'.violations))
       IN  /\ Len(eng'.violations) >= Len(eng.violations)
           /\ Len(eng'.users) = Len(eng.users)
           /\ \A u \in 1..Len(eng.users) :
                  eng'.users[u].trustScore = ScoreAfter(eng.users[u].trustScore, added, u)]_vars

\* violations of all three severities are recorded, user 1 has lost trust
\* and user 2, without a violation, has not
C35_Witness ==
    /\ \A sev \in {"high", "warning", "low"} :
            \E i \in 1..Len(eng.violations) :
                eng.violations[i].severity = sev /\ eng.violations[i].userId = 1
    /\ \A i \in 1..Len(eng.violations) : eng.violations[i].userId # 2
    /\ eng.users[1].trustScore = ScoreAfter(DefaultTrustScore, eng.violations, 1)
    /\ eng.users[1].trustScore < DefaultTrustScore
    /\ eng.users[2].trustScore = DefaultTrustScore

-----------------------------------------------------------------------------
(* Properties of the poller control *)

\* C37: there is never more than one interval timer, and pollingInterval is
\* set exactly while there is one; a call of startPoller while a timer
\* runs, or with a config that is not enabled, creates no timer and starts
\* no tick; a call of startPoller with an enabled config and no timer
\* running, as after stopPoller, leaves exactly one timer and starts one
\* tick; a call of stopPoller leaves no timer
C37_AtMostOnePollingTimer ==
    /\ [](timers <= 1 /\ (pollingInterval <=> timers = 1))
    /\ [][calls' # calls =>
            LET c == calls'[Len(calls')]
            IN  /\ (c.op = "startPoller" /\ (timers > 0 \/ ~c.enabled)) =>
                        /\ timers' = timers
                        /\ pollingInterval' = pollingInterval
                        /\ ticksStarted' = ticksStarted
                        /\ tick' = tick
                /\ (c.op = "startPoller" /\ timers = 0 /\ c.enabled) =>
                        /\ timers' = 1
                        /\ pollingInterval'
                        /\ ticksStarted' = ticksStarted + 1
                /\ c.op = "stopPoller" =>
                        /\ timers' = 0
                        /\ ~pollingInterval'
                        /\ ticksStarted' = ticksStarted]_vars

\* startPoller was called while the poller was running, and it was called
\* right after a stopPoller that stopped a running poller: one timer runs
C37_Witness ==
    /\ timers = 1
    /\ \E i \in 1..Len(calls) :
            calls[i].op = "startPoller" /\ calls[i].enabled /\ calls[i].running
    /\ \E j \in 2..Len(calls) :
            /\ calls[j - 1].op = "stopPoller" /\ calls[j - 1].running
            /\ calls[j].op = "startPoller" /\ calls[j].enabled

-----------------------------------------------------------------------------
(* Properties of the Plex normalization *)

\* C38: the ipAddress of a mapped Plex session is the player's public remote
\* address when the player is not local and a public remote address is
\* present, and the player's own address otherwise
C38_PlexIpAddressSelection ==
    plex.done =>
        LET player == plex.session.player
            present == player.remotePublicAddress \notin {NULL, ""}
        IN  plex.processed[1].ipAddress =
                IF ~player.local /\ present
                THEN player.remotePublicAddress
                ELSE player.address

\* a session of a player that is not local and has a public remote address
\* was mapped to that address, which is not the player's own
C38_Witness ==
    /\ plex.done
    /\ ~plex.session.player.local
    /\ plex.session.player.remotePublicAddress \notin {NULL, ""}
    /\ plex.processed[1].ipAddress = plex.session.player.remotePublicAddress
    /\ plex.processed[1].ipAddress # plex.session.player.address

-----------------------------------------------------------------------------
(* Properties of the violation helpers *)

\* the conditions of the evidence, in order
RECURSIVE AllConditions(_)
AllConditions(evidence) ==
    IF evidence = <<>> THEN <<>>
    ELSE Head(evidence).conditions \o AllConditions(Tail(evidence))

\* C25: the details formatEvidenceDetails returns hold, under the label of
\* the field of every condition, a plain string: the formatted actual value
\* of the last condition with that field
C25_EvidenceDetailsPlainStrings ==
    fmt.done =>
        LET conds == AllConditions(fmt.evidence)
        IN  \A i \in 1..Len(conds) :
                LET label == CONDITION_FIELD_LABELS(conds[i].field)
                IN  /\ label \in DOMAIN fmt.details
                    /\ fmt.details[label].type = "string"
                    /\ (\A j \in (i + 1)..Len(conds) : conds[j].field # conds[i].field)
                          => fmt.details[label].value
                                = formatConditionActual(conds[i], fmt.unitSystem)

====
